---- MODULE Spec2Model ----
(***************************************************************************)
(* Verification model of the mlflow-operator RBAC test harness:            *)
(*   - K8RoleManager.verify_rbac_permissions (manager/rbac.py and the      *)
(*     four-qualifier variant in managers/k8s/rbac.py),                    *)
(*   - the policy provisioner (K8RoleManager.create_role,                  *)
(*     create_role_binding, K8UserManager.create_role),                    *)
(*   - the test step executor (tests/base.py) with the error classifier,   *)
(*   - identity provisioning and teardown (TestBase._create_user,          *)
(*     ServiceAccountManager, cleanup_test_resources),                     *)
(*   - ClientManager.create_mlflow_client (utils/client.py),               *)
(*   - the error classifier on its own (tests/shared/error_models.py).     *)
(***************************************************************************)
EXTENDS Integers, Sequences, FiniteSets, TLC

VARIABLES
    args,         \* arguments of the call under analysis
    max_retries,  \* max_retries argument of verify_rbac_permissions
    answers,      \* decision-backend stub: answer to the i-th query
    v,            \* local state of one verify_rbac_permissions call
    qlog,         \* history: <<qualifier index, answer>> per decision query
    backend,      \* authorization backend: stored roles and role bindings
    g,            \* local state of K8UserManager.create_role calls
    ctx,          \* TestContext of the running test case
    ex,           \* local state of TestBase._execute_test_steps
    p,            \* one test case: identity provisioning, steps and teardown
    cm,           \* ambient credential state and the create_mlflow_client calls
    cl,           \* one message and the classifier calls made on it
    td            \* local state of the teardown of cleanup_test_resources

vars ==
    <<args, max_retries, answers, v, qlog, backend, g, ctx, ex, p, cm, cl, td>>

\* the variables a stand-alone verifier call leaves alone
grantVars == <<backend, g, ctx, ex, p, cm, cl, td>>

\* the variables a provisioner call leaves alone
execVars == <<ctx, ex, p, cm, cl, td>>

\* the variables the step executor leaves alone
provVars ==
    <<args, max_retries, answers, v, qlog, backend, g, p, cm, cl, td>>

----------------------------------------------------------------------------
(* Bounds *)

MaxRetriesBound == 3
MaxVerbs == 2
MaxResources == 2
MaxSub == 1
MaxCalls == 2
MaxSteps == 2
MaxThreads == 2
MaxPatterns == 3
MaxRegistered == 3

----------------------------------------------------------------------------
(* Generic helpers *)

Range(s) == {s[i] : i \in DOMAIN s}

RECURSIVE Pow(_, _)
Pow(b, n) == IF n <= 0 THEN 1 ELSE b * Pow(b, n - 1)

\* number of entries of sequence s satisfying Test
CountIn(s, Test(_)) == Cardinality({i \in DOMAIN s : Test(s[i])})

----------------------------------------------------------------------------
(* Decision backend (AuthorizationV1Api.create_subject_access_review) *)

Answers == {"allowed", "denied", "error"}

Identities == {"test-user-a", "test-user-b"}
CheckedResources == {"experiments", "registeredmodels"}
CheckedVerbs == {"get", "delete"}

----------------------------------------------------------------------------
(* K8RoleManager.verify_rbac_permissions, manager/rbac.py *)

api_groups_to_try == <<"mlflow.kubeflow.org">>

NoReason == "No reason provided"

\* for attempt in range(max_retries): is there an iteration numbered attempt?
HasAttemptMut(attempt, mr) == attempt <= mr
HasAttempt(attempt, mr) == attempt < mr

\* retry_delay *= 1.2, kept as the exponent of 1.2 over the initial delay
BackoffMut(e) == e + 2
Backoff(e) == e + 1

\* time.sleep(retry_delay); retry_delay *= 1.2
Sleep(s) ==
    [s EXCEPT !.sleeps = Append(@, <<s.gi, s.delayExp>>),
              !.delayExp = Backoff(@)]

\* the RuntimeError raised at the end of the function
ExhaustedErrorMut(a, s) ==
    <<"RBAC permissions could not be verified for", a.sa,
      "failed due to K8s error:", s.reason>>
ExhaustedError(a, s) ==
    <<"RBAC permissions could not be verified for", a.sa, "to", a.verb,
      a.resource, "failed due to K8s error:", s.reason>>

\* the two logger.warning calls before the raise
ExhaustedWarnings(a) ==
    << <<"RBAC permissions could not be verified for", a.sa, "to", a.verb,
         a.resource>>,
       <<"Tried API groups:">> \o api_groups_to_try >>

\* falling out of the outer loop: warn, then raise RuntimeError
ExhaustedMut(a, s) ==
    [s EXCEPT !.pc = "returned"]
Exhausted(a, s) ==
    [s EXCEPT !.pc = "raised",
              !.warned = ExhaustedWarnings(a),
              !.exc = ExhaustedError(a, s)]

\* loop control of the two nested for loops: position the call on the next
\* (api_group, attempt) that has an iteration, or leave the outer loop
RECURSIVE Enter(_, _, _, _, _)
Enter(a, s, gi, attempt, mr) ==
    IF gi > Len(api_groups_to_try)
    THEN Exhausted(a, s)
    ELSE LET t == IF attempt = 0 THEN [s EXCEPT !.reason = NoReason] ELSE s
         IN  IF HasAttempt(attempt, mr)
             THEN [t EXCEPT !.pc = "query", !.gi = gi, !.attempt = attempt]
             ELSE Enter(a, t, gi + 1, 0, mr)

\* result.status.allowed is true: log and return
OnAllowedMut(a, s, mr) == Enter(a, s, s.gi, s.attempt + 1, mr)
OnAllowed(a, s, mr) == [s EXCEPT !.pc = "returned"]

\* result.status.allowed is false
OnDenied(a, s, mr) ==
    LET t == IF s.attempt < mr - 1 THEN Sleep(s) ELSE s
    IN  Enter(a, t, s.gi, s.attempt + 1, mr)

\* create_subject_access_review raised
OnError(a, s, mr) ==
    IF s.attempt < mr
    THEN Enter(a, Sleep(s), s.gi, s.attempt + 1, mr)
    ELSE Enter(a, s, s.gi + 1, 0, mr)

\* one iteration of the inner loop, given the backend's answer
VerifyStep(a, s, mr, ans) ==
    LET q == [s EXCEPT !.queries = @ + 1]
    IN  CASE ans = "allowed" -> OnAllowed(a, q, mr)
          [] ans = "denied"  -> OnDenied(a, q, mr)
          [] OTHER           -> OnError(a, q, mr)

\* local state at function entry
VerifyInit ==
    [pc |-> "entry", gi |-> 1, attempt |-> 0, queries |-> 0,
     sleeps |-> <<>>, delayExp |-> 0, reason |-> NoReason,
     warned |-> <<>>, exc |-> <<>>]

\* a whole call against a scripted backend
RECURSIVE VerifyRun(_, _, _, _)
VerifyRun(a, s, mr, script) ==
    IF s.pc = "entry" THEN VerifyRun(a, Enter(a, s, 1, 0, mr), mr, script)
    ELSE IF s.pc = "query"
         THEN VerifyRun(a, VerifyStep(a, s, mr, script[s.queries + 1]), mr, script)
         ELSE s

----------------------------------------------------------------------------
(* K8RoleManager.verify_rbac_permissions, managers/k8s/rbac.py             *)

k8s_api_groups_to_try == <<"mlflow.kubeflow.org", "mlflow.org", "kubeflow.org", "">>

\* the four logger.warning calls at the end; the function then returns None
K8sExhaustedWarnings(a) ==
    << <<"RBAC permissions could not be verified for", a.sa, "to", a.verb,
         a.resource>>,
       <<"Tried API groups:">> \o k8s_api_groups_to_try,
       <<"This may indicate that MLflow CRDs are not installed or use different API groups">>,
       <<"Proceeding without verification - test may fail if permissions are not actually available">> >>

K8sExhausted(a, s) ==
    [s EXCEPT !.pc = "returned", !.warned = K8sExhaustedWarnings(a)]

\* loop control of the nested for loops
RECURSIVE K8sEnter(_, _, _, _, _)
K8sEnter(a, s, gi, attempt, mr) ==
    IF gi > Len(k8s_api_groups_to_try)
    THEN K8sExhausted(a, s)
    ELSE IF attempt < mr
         THEN [s EXCEPT !.pc = "query", !.gi = gi, !.attempt = attempt]
         ELSE K8sEnter(a, s, gi + 1, 0, mr)

\* result.status.allowed is true: log and return
K8sOnAllowed(a, s, mr) == [s EXCEPT !.pc = "returned"]

\* result.status.allowed is false: optional sleep, then break
K8sOnDenied(a, s, mr) ==
    LET t == IF s.attempt < mr - 1 THEN Sleep(s) ELSE s
    IN  K8sEnter(a, t, s.gi + 1, 0, mr)

\* create_subject_access_review raised: sleep and retry, or break
K8sOnError(a, s, mr) ==
    IF s.attempt < mr - 1
    THEN K8sEnter(a, Sleep(s), s.gi, s.attempt + 1, mr)
    ELSE K8sEnter(a, s, s.gi + 1, 0, mr)

K8sVerifyStep(a, s, mr, ans) ==
    LET q == [s EXCEPT !.queries = @ + 1]
    IN  CASE ans = "allowed" -> K8sOnAllowed(a, q, mr)
          [] ans = "denied"  -> K8sOnDenied(a, q, mr)
          [] OTHER           -> K8sOnError(a, q, mr)

----------------------------------------------------------------------------
(* Permission model: enums/kube_verb.py, enums/resource_type.py *)

None == "None"

\* Optional[list[str]]: not supplied, or a supplied list
NoList == [given |-> FALSE, list |-> <<>>]

Given(l) == [given |-> TRUE, list |-> l]

KubeVerb == <<"get", "create", "list", "update", "delete">>

ResourceType ==
    <<"experiments", "registeredmodels", "jobs",
      "gatewaysecrets", "gatewayendpoints", "gatewaymodeldefinitions">>

\* ResourceType.get_k8s_sub_resources
get_k8s_sub_resources(r) ==
    CASE r = "gatewaysecrets"          -> <<"gatewaysecrets/use">>
      [] r = "gatewayendpoints"        -> <<"gatewayendpoints/use">>
      [] r = "gatewaymodeldefinitions" -> <<"gatewaymodeldefinitions/use">>
      [] OTHER                         -> <<>>

\* ResourceType.get_all_sub_resources
get_all_sub_resources ==
    <<"gatewaysecrets/use", "gatewayendpoints/use", "gatewaymodeldefinitions/use">>

\* the duplicate-free lists of at most n members of order, in order
ListsOf(order, n) ==
    {SelectSeq(order, LAMBDA x : x \in S) :
        S \in {T \in SUBSET Range(order) : Cardinality(T) <= n}}

----------------------------------------------------------------------------
(* Authorization backend: RbacAuthorizationV1Api *)

Responses == {"ok", "409", "error"}

EmptyBackend == [roles |-> <<>>, bindings |-> <<>>]

\* index of the stored object with this namespace and name, 0 if none
RECURSIVE IndexOf(_, _, _)
IndexOf(store, key, i) ==
    IF i > Len(store) THEN 0
    ELSE IF store[i].key = key THEN i ELSE IndexOf(store, key, i + 1)

Exists(store, key) == IndexOf(store, key, 1) # 0

\* the responses create_namespaced_role / create_namespaced_role_binding can
\* give: 409 for an existing name, ok for a new one, or some other failure
Possible(store, key) ==
    IF Exists(store, key) THEN {"409", "error"} ELSE {"ok", "error"}

\* the store after the request
Stored(store, key, body, resp) ==
    IF resp = "ok" THEN Append(store, [key |-> key, body |-> body]) ELSE store

----------------------------------------------------------------------------
(* K8RoleManager.create_role and create_role_binding, manager/rbac.py *)

\* subresources = subresources or []
SubOrEmpty(sub) == IF ~sub.given THEN <<>> ELSE sub.list

Rule(groups, resources, verbs) ==
    [api_groups |-> groups, resources |-> resources, verbs |-> verbs]

\* gateway_sub_resources, extended over the requested resources
RECURSIVE GatewaySubResources(_)
GatewaySubResources(resources) ==
    IF resources = <<>> THEN <<>>
    ELSE get_k8s_sub_resources(Head(resources)) \o GatewaySubResources(Tail(resources))

MainRulesMut(verbs, resources) ==
    <<Rule(<<"mlflow.kubeflow.org">>, resources, verbs)>>

\* Rule 1: main resources
MainRules(verbs, resources) ==
    IF resources # <<>>
    THEN <<Rule(<<"mlflow.kubeflow.org">>, resources, verbs)>>
    ELSE <<>>

SubRulesMut(verbs, resources, sub) ==
    IF SubOrEmpty(sub) # <<>>
    THEN <<Rule(<<"mlflow.kubeflow.org">>, SubOrEmpty(sub), <<"create">>)>>
    ELSE IF GatewaySubResources(resources) # <<>> /\ "create" \in Range(verbs)
         THEN <<Rule(<<"mlflow.kubeflow.org">>, GatewaySubResources(resources),
                     verbs)>>
         ELSE <<>>

SubRulesSkipMut(verbs, resources, sub) ==
    IF SubOrEmpty(sub) # <<>>
    THEN <<Rule(<<"mlflow.kubeflow.org">>, SubOrEmpty(sub), <<"create">>)>>
    ELSE IF ~sub.given /\ GatewaySubResources(resources) # <<>>
               /\ "create" \in Range(verbs)
         THEN <<Rule(<<"mlflow.kubeflow.org">>, GatewaySubResources(resources),
                     <<"create">>)>>
         ELSE <<>>

SubRulesAnyVerbMut(verbs, resources, sub) ==
    IF SubOrEmpty(sub) # <<>>
    THEN <<Rule(<<"mlflow.kubeflow.org">>, SubOrEmpty(sub), <<"create">>)>>
    ELSE IF GatewaySubResources(resources) # <<>>
         THEN <<Rule(<<"mlflow.kubeflow.org">>, GatewaySubResources(resources),
                     <<"create">>)>>
         ELSE <<>>

\* Rule 2: sub-resources, explicit or auto-detected
SubRules(verbs, resources, sub) ==
    IF SubOrEmpty(sub) # <<>>
    THEN <<Rule(<<"mlflow.kubeflow.org">>, SubOrEmpty(sub), <<"create">>)>>
    ELSE IF GatewaySubResources(resources) # <<>> /\ "create" \in Range(verbs)
         THEN <<Rule(<<"mlflow.kubeflow.org">>, GatewaySubResources(resources),
                     <<"create">>)>>
         ELSE <<>>

CoreRuleMut(verbs) ==
    Rule(<<"">>, <<"namespaces", "serviceaccounts", "secrets">>,
         <<"get", "list", "create">>)

\* Rule 3: core API access
CoreRule(verbs) ==
    Rule(<<"">>, <<"namespaces", "serviceaccounts", "secrets">>,
         IF "create" \notin Range(verbs)
         THEN <<"get", "list">> ELSE <<"get", "list", "create">>)

\* Rule 4: RBAC self-inspection
RbacRule ==
    Rule(<<"rbac.authorization.k8s.io">>, <<"roles", "rolebindings">>,
         <<"get", "list">>)

\* policy_rules
PolicyRules(verbs, resources, sub) ==
    MainRules(verbs, resources) \o SubRules(verbs, resources, sub)
        \o <<CoreRule(verbs), RbacRule>>

\* whether the local gateway_sub_resources has been assigned when the
\* "permissions" log line after a successful creation reads it
GatewayBound(sub) == SubOrEmpty(sub) = <<>>

\* how create_role ends, given the backend's response
RoleOutcome(resp, sub) ==
    CASE resp = "ok"  -> IF GatewayBound(sub) THEN "returned" ELSE "UnboundLocalError"
      [] resp = "409" -> "returned"
      [] OTHER        -> "ApiException"

\* the V1RoleBinding body
BindingBody(role_name, sa, namespace) ==
    [role_ref |-> role_name, subject |-> sa, namespace |-> namespace]

\* how create_role_binding ends, given the backend's response
BindingOutcomeMut(resp) == "returned"
BindingOutcome(resp) == IF resp # "error" THEN "returned" ELSE "ApiException"

----------------------------------------------------------------------------
(* K8UserManager.create_role, manager/user.py *)

VerifyMaxRetries == 10

\* the resource kinds the modelled callers request: two plain kinds and two
\* kinds that declare sub-resources
GrantedKinds ==
    <<"experiments", "registeredmodels", "gatewaysecrets", "gatewayendpoints">>

RoleName(name) == <<name, "-role">>

BindingName(name) == <<name, "-binding">>

TestVerbMut(verbs) ==
    CASE "create" \in Range(verbs) -> "create"
      [] "delete" \in Range(verbs) -> "delete"
      [] "update" \in Range(verbs) -> "update"
      [] "get" \in Range(verbs)    -> "get"
      [] "list" \in Range(verbs)   -> "list"
      [] OTHER -> IF verbs # <<>> THEN verbs[1] ELSE "get"

\* the most important verb available (delete > create > update > get > list)
TestVerb(verbs) ==
    CASE "delete" \in Range(verbs) -> "delete"
      [] "create" \in Range(verbs) -> "create"
      [] "update" \in Range(verbs) -> "update"
      [] "get" \in Range(verbs)    -> "get"
      [] "list" \in Range(verbs)   -> "list"
      [] OTHER -> IF verbs # <<>> THEN verbs[1] ELSE "get"

\* arguments of the verification of the ri-th resource
VerifyArgs(a, ri) ==
    [sa |-> a.name, resource |-> a.resources[ri], verb |-> TestVerb(a.verbs)]

\* no creation request of the call was answered with a failure
NoFailureIn(reqs) == \A i \in DOMAIN reqs : reqs[i][2] # "error"

\* checks: the <<resource, verb>> of each verification the call has entered
GrantIdle ==
    [pc |-> "idle", call |-> 0, ri |-> 0, reqs |-> <<>>, sars |-> 0,
     checks |-> <<>>, exc |-> None, raisedBy |-> None, first |-> <<>>]

\* state at entry of a call
GrantEntry(n, first) ==
    [pc |-> "role", call |-> n, ri |-> 0, reqs |-> <<>>, sars |-> 0,
     checks |-> <<>>, exc |-> None, raisedBy |-> None, first |-> first]

Raise(s, exc, by) == [s EXCEPT !.pc = "raised", !.exc = exc, !.raisedBy = by]

----------------------------------------------------------------------------
(* Error classifier: tests/shared/error_models.py *)

_classify_errorResourceFirstMut(P) ==
    CASE "not found" \in P \/ "does not exist" \in P -> "RESOURCE_NOT_FOUND"
      [] "permission" \in P /\ "denied" \in P -> "PERMISSION_DENIED"
      [] "unauthenticated" \in P -> "UNAUTHENTICATED"
      [] "forbidden" \in P -> "FORBIDDEN"
      [] "authentication" \in P /\ "failed" \in P -> "AUTHENTICATION_FAILED"
      [] "already exists" \in P \/ "duplicate" \in P -> "RESOURCE_ALREADY_EXISTS"
      [] "workspace" \in P /\ ("access" \in P \/ "denied" \in P) -> "WORKSPACE_ACCESS_DENIED"
      [] "quota" \in P \/ "limit" \in P -> "QUOTA_EXCEEDED"
      [] "invalid" \in P \/ "bad request" \in P -> "INVALID_REQUEST"
      [] OTHER -> "INTERNAL_ERROR"

_classify_errorQuotaFirstMut(P) ==
    CASE "permission" \in P /\ "denied" \in P -> "PERMISSION_DENIED"
      [] "unauthenticated" \in P -> "UNAUTHENTICATED"
      [] "forbidden" \in P -> "FORBIDDEN"
      [] "authentication" \in P /\ "failed" \in P -> "AUTHENTICATION_FAILED"
      [] "quota" \in P \/ "limit" \in P -> "QUOTA_EXCEEDED"
      [] "not found" \in P \/ "does not exist" \in P -> "RESOURCE_NOT_FOUND"
      [] "already exists" \in P \/ "duplicate" \in P -> "RESOURCE_ALREADY_EXISTS"
      [] "workspace" \in P /\ ("access" \in P \/ "denied" \in P) -> "WORKSPACE_ACCESS_DENIED"
      [] "invalid" \in P \/ "bad request" \in P -> "INVALID_REQUEST"
      [] OTHER -> "INTERNAL_ERROR"

\* ErrorResponse._classify_error, over the set P of table substrings that
\* the lower-cased message contains
_classify_error(P) ==
    CASE "permission" \in P /\ "denied" \in P -> "PERMISSION_DENIED"
      [] "unauthenticated" \in P -> "UNAUTHENTICATED"
      [] "forbidden" \in P -> "FORBIDDEN"
      [] "authentication" \in P /\ "failed" \in P -> "AUTHENTICATION_FAILED"
      [] "not found" \in P \/ "does not exist" \in P -> "RESOURCE_NOT_FOUND"
      [] "already exists" \in P \/ "duplicate" \in P -> "RESOURCE_ALREADY_EXISTS"
      [] "workspace" \in P /\ ("access" \in P \/ "denied" \in P) -> "WORKSPACE_ACCESS_DENIED"
      [] "quota" \in P \/ "limit" \in P -> "QUOTA_EXCEEDED"
      [] "invalid" \in P \/ "bad request" \in P -> "INVALID_REQUEST"
      [] OTHER -> "INTERNAL_ERROR"

\* ErrorResponse.is_permission_error
is_permission_error(e) ==
    e.code \in {"PERMISSION_DENIED", "UNAUTHENTICATED", "FORBIDDEN",
                "AUTHENTICATION_FAILED", "WORKSPACE_ACCESS_DENIED"}

is_authentication_errorMut(e) ==
    e.code \in {"UNAUTHENTICATED", "AUTHENTICATION_FAILED", "FORBIDDEN",
                "RESOURCE_NOT_FOUND"}

\* ErrorResponse.is_authentication_error
is_authentication_error(e) ==
    e.code \in {"UNAUTHENTICATED", "AUTHENTICATION_FAILED", "FORBIDDEN"}

\* class ErrorCode
ErrorCode ==
    {"PERMISSION_DENIED", "UNAUTHENTICATED", "FORBIDDEN",
     "AUTHENTICATION_FAILED", "RESOURCE_NOT_FOUND", "RESOURCE_ALREADY_EXISTS",
     "INVALID_REQUEST", "INTERNAL_ERROR", "WORKSPACE_ACCESS_DENIED",
     "QUOTA_EXCEEDED"}

\* the substrings the table of _classify_error looks for
Patterns ==
    {"permission", "denied", "unauthenticated", "forbidden", "authentication",
     "failed", "not found", "does not exist", "already exists", "duplicate",
     "workspace", "access", "quota", "limit", "invalid", "bad request"}

\* the messages classified: those containing at most MaxPatterns of the
\* table substrings
ClassifyInputs == {P \in SUBSET Patterns : Cardinality(P) <= MaxPatterns}

\* an ErrorResponse with this code
ErrorOf(code) ==
    [present |-> TRUE, code |-> code, message |-> None, details |-> <<>>]

\* no message under classification
ClassifyIdle == [msg |-> {}, calls |-> <<>>, asked |-> {}, perm |-> FALSE,
                 auth |-> FALSE]

\* the messages the tracked service raises in the executor runs, and the
\* table substrings each contains
ActionMessages ==
    {"PERMISSION_DENIED: Permission denied for requested operation.",
     "RESOURCE_DOES_NOT_EXIST: experiment not found",
     "Connection reset by peer"}

Substrings(m) ==
    CASE m = "PERMISSION_DENIED: Permission denied for requested operation."
             -> {"permission", "denied"}
      [] m = "RESOURCE_DOES_NOT_EXIST: experiment not found"
             -> {"not found"}
      [] m = "workspace cannot be empty" -> {"workspace"}
      [] OTHER -> {}

from_exceptionMut(m, workspace, user) ==
    [present |-> TRUE, code |-> "INTERNAL_ERROR", message |-> m, details |-> <<>>]

\* ErrorResponse.from_exception
from_exception(m, workspace, user) ==
    [present |-> TRUE,
     code |-> _classify_error(Substrings(m)),
     message |-> m,
     details |->
        IF workspace # None \/ user # None
        THEN <<"Context:">>
                \o (IF user # None THEN <<"User:", user>> ELSE <<>>)
                \o (IF workspace # None THEN <<"Workspace:", workspace>> ELSE <<>>)
        ELSE <<>>]

\* last_error is None
NoError == [present |-> FALSE, code |-> None, message |-> None, details |-> <<>>]

----------------------------------------------------------------------------
(* Test context and step executor: tests/shared/test_context.py,          *)
(* tests/shared/test_data.py, tests/base.py                                *)

ActionFuncs == {"action_create_experiment", "action_get_experiment"}

ExpectDenial == "validate_authentication_denied"

ValidateFuncs == {ExpectDenial, "validate_experiment_created"}

\* active_user is None
NoUser == [present |-> FALSE, uname |-> None]

User(uname) == [present |-> TRUE, uname |-> uname]

\* TestContext(workspaces=...)
NewTestContext ==
    [active_user |-> NoUser, active_workspace |-> None, last_error |-> NoError,
     experiments_to_delete |-> <<>>]

\* TestStep
TestSteps ==
    [user_info : BOOLEAN,
     workspace_to_use : {None, "workspace2"},
     action_func : ActionFuncs \cup {None},
     validate_func : ValidateFuncs \cup {None}]

NoStep ==
    [user_info |-> FALSE, workspace_to_use |-> None, action_func |-> None,
     validate_func |-> None]

ExecIdle ==
    [pc |-> "idle", n |-> 0, i |-> 0, step |-> NoStep, td_user |-> FALSE,
     mlflow_workspace |-> None, actionRaised |-> FALSE, actionMsg |-> None,
     bodyRan |-> FALSE, exc |-> [type |-> None, msg |-> <<>>], trace |-> <<>>,
     created |-> <<>>]

\* the action creates an experiment and registers it for cleanup
CreatesExperiment(e) == e.step.action_func = "action_create_experiment"

\* mlflow.create_experiment(experiment_name) returned: the tracked service
\* has a new experiment in the workspace the client is set to (ex.created
\* is the service's side)
Created(e) ==
    [e EXCEPT !.created = Append(@, [id |-> Len(e.created) + 1,
                                     workspace |-> e.mlflow_workspace])]

\* add_experiment_for_cleanup(experiment_id, test_context.active_workspace)
add_experiment_for_cleanup(c, experiment_id, workspace) ==
    [c EXCEPT !.experiments_to_delete =
                  Append(@, [id |-> experiment_id, workspace |-> workspace])]

\* leave the step: next iteration, or the code after the loop
EndStep(c, e) ==
    IF e.i < e.n
    THEN /\ ex' = [e EXCEPT !.pc = "loop"]
         /\ ctx' = c
    ELSE /\ ex' = [e EXCEPT !.pc = "done"]
         /\ ctx' = IF e.td_user
                   THEN [c EXCEPT !.active_user = User(None)]
                   ELSE c

AfterActionMut(c, e) ==
    IF e.step.validate_func # None
    THEN ex' = [e EXCEPT !.pc = "validate"] /\ ctx' = c
    ELSE IF e.actionRaised
         THEN ex' = [e EXCEPT !.pc = "raised"] /\ ctx' = c
         ELSE EndStep(c, e)

\* after the action: the validation if the step has one
AfterAction(c, e) ==
    IF e.step.validate_func # None
    THEN ex' = [e EXCEPT !.pc = "validate"] /\ ctx' = c
    ELSE EndStep(c, e)

\* mlflow.set_workspace(step.workspace_to_use), then the action if present
AfterProvision(c, e) ==
    LET f == IF e.step.workspace_to_use # None
             THEN [e EXCEPT !.mlflow_workspace = e.step.workspace_to_use,
                            !.trace = Append(@, <<e.i, "workspace">>)]
             ELSE e
    IN  IF f.step.action_func # None
        THEN ex' = [f EXCEPT !.pc = "action"] /\ ctx' = c
        ELSE AfterAction(c, f)

\* the short-circuit test of _execute_validation
ShortCircuitsMut(c, validation_name) == FALSE
ShortCircuits(c, validation_name) ==
    c.last_error.present /\ validation_name # ExpectDenial

\* the AssertionError text of the short-circuit
ShortCircuitMessage(c, action_name) ==
    <<"Action", action_name, "failed for user",
      IF c.active_user.present THEN c.active_user.uname ELSE "unknown",
      "in workspace",
      IF c.active_workspace # None THEN c.active_workspace ELSE "unknown",
      c.last_error.code, "-", c.last_error.message>>
      \o (IF c.last_error.details # <<>>
          THEN <<"Details:">> \o c.last_error.details ELSE <<>>)

\* validate_authentication_denied: None when it passes, else the exception
validate_authentication_denied(c) ==
    CASE ~c.active_user.present -> "AttributeError"
      [] ~c.last_error.present -> "AssertionError"
      [] ~is_permission_error(c.last_error) -> "AssertionError"
      [] OTHER -> None

----------------------------------------------------------------------------
(* ServiceAccountManager, managers/k8s/service_account.py *)

\* a bearer credential: its length and the number of parts of token.split('.')
Token(len, parts) == [len |-> len, parts |-> parts]

\* the empty credential
NoToken == Token(0, 1)

\* credentials the identity backend may issue: empty, short, medium and long
\* ones, each with and without the three-part form
Tokens ==
    {NoToken, Token(5, 1), Token(5, 3), Token(20, 1), Token(20, 3),
     Token(60, 2), Token(60, 3)}

\* answers of create_namespaced_service_account_token
TokenResponses ==
    {[error |-> TRUE, token |-> NoToken]} \cup
    {[error |-> FALSE, token |-> t] : t \in Tokens}

\* max_retries default of _get_token_via_token_request
TokenMaxRetries == 5

\* len(token) < 10
MinTokenLen == 10

\* state of one _get_token_via_token_request call at its first request
TokenEnter(mr) ==
    [pc |-> IF 0 < mr THEN "request" ELSE "raised", attempt |-> 0,
     requests |-> 0, sleeps |-> 0, token |-> NoToken,
     exc |-> IF 0 < mr THEN None ELSE "RuntimeError"]

TokenRetryMut(s, mr) == [s EXCEPT !.sleeps = @ + 1]

\* time.sleep(current_delay); current_delay *= 1.5; continue
TokenRetry(s, mr) ==
    IF s.attempt + 1 < mr
    THEN [s EXCEPT !.attempt = @ + 1, !.sleeps = @ + 1]
    ELSE [s EXCEPT !.attempt = @ + 1, !.sleeps = @ + 1, !.pc = "raised",
                   !.exc = "RuntimeError"]

TokenRaise(s, exc) == [s EXCEPT !.pc = "raised", !.exc = exc]

TokenReturn(s, t) == [s EXCEPT !.pc = "returned", !.token = t]

\* what a token that is not in three-part form leads to on the last attempt
NotJwtOnLastAttempt(s, t) == TokenReturn(s, t)

\* one iteration of the request loop, given the backend's answer
TokenStep(s0, mr, resp) ==
    LET s == [s0 EXCEPT !.requests = @ + 1]
        more == s.attempt < mr - 1
    IN  CASE resp.error ->
                IF s.attempt = mr - 1 THEN TokenRaise(s, "ApiException")
                ELSE TokenRetry(s, mr)
          [] ~resp.error /\ resp.token.len = 0 ->
                IF more THEN TokenRetry(s, mr) ELSE TokenRaise(s, "ValueError")
          [] ~resp.error /\ resp.token.len # 0 /\ resp.token.len < MinTokenLen ->
                IF more THEN TokenRetry(s, mr) ELSE TokenRaise(s, "ValueError")
          [] ~resp.error /\ resp.token.len >= MinTokenLen /\ resp.token.parts # 3 ->
                IF more THEN TokenRetry(s, mr)
                ELSE NotJwtOnLastAttempt(s, resp.token)
          [] OTHER -> TokenReturn(s, resp.token)

\* answers of create_namespaced_service_account followed by the read of the
\* account: created and read, created but the read failed, already there and
\* read, already there but the read failed, refused
SaResponses == {"ok", "ok_read_error", "409", "409_read_error", "error"}

\* the answers possible for a name, given the accounts that exist
SaPossible(sas, name) ==
    IF name \in sas THEN {"409", "409_read_error", "error"}
    ELSE {"ok", "ok_read_error", "error"}

\* how _create_service_account ends
SaOutcome(resp) ==
    CASE resp \in {"ok", "409"} -> "returned"
      [] resp = "409_read_error" -> "ApiException"
      [] OTHER -> "Exception"

\* answers of delete_namespaced_service_account
SaDeleteResponses == {"ok", "404", "error"}

\* how delete_service_account ends
SaDeleteOutcome(resp) == IF resp = "error" THEN "ApiException" ELSE "returned"

----------------------------------------------------------------------------
(* ClientManager.create_mlflow_client, utils/client.py *)

\* os.environ restricted to the MLflow authentication variables, and the
\* tracking URI set by mlflow.set_tracking_uri
CleanEnv == [username |-> None, password |-> None, token |-> None, uri |-> None]

TrackingUri == "https://localhost:8080"

Creds(username, password, token) ==
    [username |-> username, password |-> password, token |-> token,
     tracking_uri |-> TrackingUri]

\* the argument combinations of the callers: basic auth, bearer token, both,
\* none, and the two partial basic-auth combinations
ClientCreds ==
    {Creds("alice", "pw-alice", None), Creds("bob", "pw-bob", None),
     Creds(None, None, "token-a"), Creds(None, None, "token-b"),
     Creds("alice", "pw-alice", "token-a"), Creds(None, None, None),
     Creds("alice", None, None), Creds("", "pw-bob", None)}

ProvidedMut(x) == x # None

\* username is not None and username != ""
Provided(x) == x # None /\ x # ""

\* auth_vars
auth_vars == <<"username", "password", "token">>

\* the ambient credentials a client constructed from creds must see
ExpectedEnv(c) ==
    IF Provided(c.username) /\ Provided(c.password)
    THEN [username |-> c.username, password |-> c.password, token |-> None]
    ELSE IF c.token # None /\ c.token # ""
         THEN [username |-> None, password |-> None, token |-> c.token]
         ELSE [username |-> None, password |-> None, token |-> None]

\* the authentication variables of the environment
AuthOf(env) ==
    [username |-> env.username, password |-> env.password, token |-> env.token]

NoCall == [pc |-> "idle", creds |-> Creds(None, None, None), k |-> 0,
           seen |-> AuthOf(CleanEnv), entered |-> FALSE]

NewCall(c) == [NoCall EXCEPT !.pc = "start", !.creds = c]

\* whether the lock can be taken
LockFreeMut(lock) == TRUE
LockFree(lock) == lock = 0

\* one statement of create_mlflow_client by a call that is past the lock
\* acquisition (or before it, at "start"); gives the call and the environment
ClientStep(c, env) ==
    CASE c.pc = "start" ->
            [c |-> IF Provided(c.creds.username) # Provided(c.creds.password)
                   THEN [c EXCEPT !.pc = "raised"]
                   ELSE [c EXCEPT !.pc = "acquire"],
             env |-> env]
      [] c.pc = "clear" ->
            [c |-> IF c.k < Len(auth_vars) THEN [c EXCEPT !.k = @ + 1]
                   ELSE [c EXCEPT !.pc = "set_uri"],
             env |-> [env EXCEPT ![auth_vars[c.k]] = None]]
      [] c.pc = "set_uri" ->
            [c |-> [c EXCEPT !.pc = "set_creds"],
             env |-> [env EXCEPT !.uri = c.creds.tracking_uri]]
      [] c.pc = "set_creds" ->
            IF Provided(c.creds.username) /\ Provided(c.creds.password)
            THEN [c |-> [c EXCEPT !.pc = "set_password"],
                  env |-> [env EXCEPT !.username = c.creds.username]]
            ELSE IF c.creds.token # None /\ c.creds.token # ""
                 THEN [c |-> [c EXCEPT !.pc = "construct"],
                       env |-> [env EXCEPT !.token = c.creds.token]]
                 ELSE [c |-> [c EXCEPT !.pc = "construct"], env |-> env]
      [] c.pc = "set_password" ->
            [c |-> [c EXCEPT !.pc = "construct"],
             env |-> [env EXCEPT !.password = c.creds.password]]
      [] c.pc = "construct" ->
            [c |-> [c EXCEPT !.pc = "returned", !.seen = AuthOf(env)],
             env |-> env]
      [] OTHER -> [c |-> c, env |-> env]

LockedMut(c) == [c EXCEPT !.pc = "set_uri", !.entered = TRUE]

\* the lock has been taken: the first statement inside the with block
Locked(c) == [c EXCEPT !.pc = "clear", !.k = 1, !.entered = TRUE]

\* a whole call run alone
RECURSIVE ClientRun(_, _)
ClientRun(c, env) ==
    CASE c.pc \in {"returned", "raised", "idle"} -> [c |-> c, env |-> env]
      [] c.pc = "acquire" -> ClientRun(Locked(c), env)
      [] OTHER -> LET r == ClientStep(c, env) IN ClientRun(r.c, r.env)

\* set_user_context(("", credential)) of tests/base.py
set_user_context(credential, env) ==
    ClientRun(NewCall(Creds(None, None, credential)), env)

\* Config.K8_API_TOKEN
AdminToken == "admin-token"

\* last is the call that most recently took the lock (0: none yet)
ClientIdle == [env |-> CleanEnv, lock |-> 0, last |-> 0, calls |-> <<>>]

----------------------------------------------------------------------------
(* TestBase.cleanup_test_resources and _switch_workspace, tests/base.py *)

\* test_context.workspaces (Config.WORKSPACES)
Workspaces == {"workspace1", "workspace2"}

\* the registries in the order the teardown visits them: experiments_to_delete,
\* runs_to_delete, models_to_delete, users_to_delete
CleanupKinds == <<"experiment", "run", "model", "user">>

KindRank(kind) == CHOOSE i \in DOMAIN CleanupKinds : CleanupKinds[i] = kind

\* a registered resource and the workspace recorded for it, one of
\* test_context.workspaces or one that is not
Registered == [kind : Range(CleanupKinds), workspace : {"workspace1", "workspace3"}]

\* the registries of a test context as one list in visiting order; the
\* position of an entry is its id
Registries ==
    {l \in UNION {[1..n -> Registered] : n \in 0..MaxRegistered} :
        \A i \in 1..(Len(l) - 1) : KindRank(l[i].kind) <= KindRank(l[i + 1].kind)}

\* log: per visited entry, the answers of mlflow.set_workspace, of the get
\* call and of the delete call ("not_called" when the call was not made)
TeardownIdle ==
    [pc |-> "idle", todo |-> <<>>, k |-> 0, original_workspace |-> None,
     workspace |-> None, log |-> <<>>, cleanup_errors |-> 0]

\* the answers of mlflow.set_workspace in _switch_workspace: not called for a
\* user and for a workspace that is not in test_context.workspaces
SwitchAnswers(item) ==
    IF item.kind = "user" \/ item.workspace \notin Workspaces
    THEN {"not_called"} ELSE {"ok", "error"}

\* _switch_workspace returned True
_switch_workspace(item, sw) == item.workspace \in Workspaces /\ sw = "ok"

\* the answers of get_experiment, get_run, get_registered_model: a live
\* object, a soft-deleted one, RESOURCE_DOES_NOT_EXIST, another exception
GetAnswers(item, sw) ==
    CASE item.kind = "user" -> {"not_called"}
      [] ~_switch_workspace(item, sw) -> {"not_called"}
      [] item.kind = "model" -> {"live", "not_found", "error"}
      [] OTHER -> {"live", "deleted", "not_found", "error"}

\* the answers of delete_experiment, delete_run, delete_registered_model,
\* user_manager.delete_user
DeleteAnswers(item, get) ==
    IF item.kind = "user" \/ get = "live" THEN {"ok", "error"}
    ELSE {"not_called"}

\* the messages one iteration appends to cleanup_errors
ErrorsOf(item, sw, get, del) ==
    CASE item.kind = "user" -> IF del = "error" THEN 1 ELSE 0
      [] ~_switch_workspace(item, sw) -> 1
      [] get = "error" \/ del = "error" -> 1
      [] get = "not_found" -> IF item.kind = "model" THEN 0 ELSE 1
      [] OTHER -> 0

TeardownStepMut(s, item, sw, get, del) ==
    [s EXCEPT !.k = @ + 1,
              !.pc = IF del = "error" THEN "raised" ELSE @,
              !.workspace = IF sw = "ok" THEN item.workspace ELSE @,
              !.log = Append(@, [id |-> s.k + 1, sw |-> sw, get |-> get,
                                 del |-> del]),
              !.cleanup_errors = @ + ErrorsOf(item, sw, get, del)]

\* one iteration of a cleanup loop: every exception is caught and logged
TeardownStep(s, item, sw, get, del) ==
    [s EXCEPT !.k = @ + 1,
              !.workspace = IF sw = "ok" THEN item.workspace ELSE @,
              !.log = Append(@, [id |-> s.k + 1, sw |-> sw, get |-> get,
                                 del |-> del]),
              !.cleanup_errors = @ + ErrorsOf(item, sw, get, del)]

----------------------------------------------------------------------------
(* TestBase._create_user and cleanup_test_resources, tests/base.py *)

\* len(token) < 50
K8sTokenMinLen == 50

\* the token check of _create_user
TokenAccepted(t) == t.len # 0 /\ ~(t.len < K8sTokenMinLen)

\* the text of the credential issued to an identity (Token gives its shape)
UserToken(name) == IF name = "test-user-a" THEN "token-a" ELSE "token-b"

\* the permissions test data asks for: UserInfo keeps subresources or []
ProvUserInfos ==
    {[workspace |-> "workspace1", verbs |-> <<"get">>,
      resources |-> <<"experiments">>, subresources |-> Given(<<>>)],
     [workspace |-> "workspace1", verbs |-> <<"create">>,
      resources |-> <<"experiments", "gatewaysecrets">>,
      subresources |-> Given(<<>>)],
     [workspace |-> "workspace1", verbs |-> <<"create">>,
      resources |-> <<"gatewaysecrets">>,
      subresources |-> Given(<<"gatewaysecrets/use">>)]}

NoArgs ==
    [name |-> None, workspace |-> None, verbs |-> <<>>, resources |-> <<>>,
     subresources |-> NoList]

ProvIdle ==
    [pc |-> "idle", n |-> 0, i |-> 0, tok |-> TokenEnter(TokenMaxRetries),
     ri |-> 0, sas |-> {}, created |-> {}, log |-> <<>>, acted |-> {},
     failed |-> 0, exc |-> None, users_to_delete |-> <<>>, di |-> 0,
     deleted |-> <<>>]

ProvRaiseMut(s, exc) == [s EXCEPT !.pc = "action", !.exc = exc]

\* an exception leaves _create_user and _execute_test_steps: the test case
\* fails and the teardown of the cleanup fixture runs
ProvRaise(s, exc) ==
    [s EXCEPT !.pc = "teardown", !.exc = exc, !.failed = s.i]

\* the step's event log (each backend answer as it was given) is the log of
\* a completed provisioning: the identity, its credential, the role, the
\* binding, an allowed decision for every requested resource, the client,
\* the registration for cleanup
Provisioned(log, a) ==
    LET n == Len(a.resources)
    IN  /\ Len(log) = 6 + n
        /\ log[1][1] = "identity" /\ log[1][2] \in {"ok", "409"}
        /\ log[2] = <<"credential", "returned">>
        /\ log[3][1] = "role" /\ log[3][2] \in {"ok", "409"}
        /\ log[4][1] = "binding" /\ log[4][2] \in {"ok", "409"}
        /\ \A k \in 1..n : log[4 + k] = <<a.resources[k], "allowed">>
        /\ log[5 + n] = <<"client", "constructed">>
        /\ log[6 + n] = <<"registered", a.name>>

----------------------------------------------------------------------------
(* Specification SpecVerify: one call of verify_rbac_permissions           *)
(* (manager/rbac.py) against a scripted decision backend                   *)

\* the script is one answer longer than any call may consume
ScriptLen == Len(api_groups_to_try) * MaxRetriesBound + 1

InitVerify ==
    /\ p = ProvIdle
    /\ cl = ClassifyIdle
    /\ td = TeardownIdle
    /\ cm = ClientIdle
    /\ args \in [sa : Identities, resource : CheckedResources, verb : CheckedVerbs]
    /\ max_retries \in 0..MaxRetriesBound
    /\ answers \in [1..ScriptLen -> Answers]
    /\ v = VerifyInit
    /\ qlog = <<>>
    /\ backend = EmptyBackend
    /\ g = GrantIdle
    /\ ctx = NewTestContext
    /\ ex = ExecIdle

VerifyCall ==
    /\ v.pc = "entry"
    /\ v' = Enter(args, v, 1, 0, max_retries)
    /\ UNCHANGED <<args, max_retries, answers, qlog>>
    /\ UNCHANGED grantVars

VerifyQuery(ans) ==
    /\ v.pc = "query"
    /\ v.queries + 1 \in DOMAIN answers
    /\ answers[v.queries + 1] = ans
    /\ v' = VerifyStep(args, v, max_retries, ans)
    /\ qlog' = Append(qlog, <<v.gi, ans>>)
    /\ UNCHANGED <<args, max_retries, answers>>
    /\ UNCHANGED grantVars

VerifyAllowed == VerifyQuery("allowed")
VerifyDenied == VerifyQuery("denied")
VerifyError == VerifyQuery("error")

NextVerify == VerifyCall \/ VerifyAllowed \/ VerifyDenied \/ VerifyError

SpecVerify == InitVerify /\ [][NextVerify]_vars

SpecVerifyLive == SpecVerify /\ WF_vars(NextVerify)

----------------------------------------------------------------------------
(* Specification SpecVerifyK8s: one call of the four-qualifier verifier;   *)
(* the backend chooses its answer at each query                            *)

InitVerifyK8s ==
    /\ p = ProvIdle
    /\ cl = ClassifyIdle
    /\ td = TeardownIdle
    /\ cm = ClientIdle
    /\ args \in [sa : Identities, resource : CheckedResources, verb : CheckedVerbs]
    /\ max_retries \in 0..MaxRetriesBound
    /\ answers = <<>>
    /\ v = VerifyInit
    /\ qlog = <<>>
    /\ backend = EmptyBackend
    /\ g = GrantIdle
    /\ ctx = NewTestContext
    /\ ex = ExecIdle

K8sVerifyCall ==
    /\ v.pc = "entry"
    /\ v' = K8sEnter(args, v, 1, 0, max_retries)
    /\ UNCHANGED <<args, max_retries, answers, qlog>>
    /\ UNCHANGED grantVars

K8sVerifyQuery(ans) ==
    /\ v.pc = "query"
    /\ v' = K8sVerifyStep(args, v, max_retries, ans)
    /\ qlog' = Append(qlog, <<v.gi, ans>>)
    /\ UNCHANGED <<args, max_retries, answers>>
    /\ UNCHANGED grantVars

K8sVerifyAllowed == K8sVerifyQuery("allowed")
K8sVerifyDenied == K8sVerifyQuery("denied")
K8sVerifyError == K8sVerifyQuery("error")

NextVerifyK8s ==
    K8sVerifyCall \/ K8sVerifyAllowed \/ K8sVerifyDenied \/ K8sVerifyError

SpecVerifyK8s == InitVerifyK8s /\ [][NextVerifyK8s]_vars

----------------------------------------------------------------------------
(* Specification SpecGrant: K8UserManager.create_role, called up to        *)
(* MaxCalls times with identical arguments against one backend             *)

InitGrant ==
    /\ p = ProvIdle
    /\ cl = ClassifyIdle
    /\ td = TeardownIdle
    /\ cm = ClientIdle
    /\ args \in [name : {"test-user-a"},
                 workspace : {"workspace1"},
                 verbs : ListsOf(KubeVerb, MaxVerbs),
                 resources : ListsOf(GrantedKinds, MaxResources),
                 subresources : {NoList} \cup
                     {Given(l) : l \in ListsOf(get_all_sub_resources, MaxSub)}]
    /\ max_retries = VerifyMaxRetries
    /\ answers = <<>>
    /\ v = VerifyInit
    /\ qlog = <<>>
    /\ backend = EmptyBackend
    /\ g = GrantEntry(1, <<>>)
    /\ ctx = NewTestContext
    /\ ex = ExecIdle

GrantCreateRoleMut(resp) ==
    LET key == <<args.workspace, RoleName(args.name)>>
        body == PolicyRules(args.verbs, args.resources, args.subresources)
        out == RoleOutcome(resp, args.subresources)
        s == [g EXCEPT !.reqs = Append(@, <<"role", resp>>)]
    IN  /\ g.pc = "role"
        /\ resp \in Possible(backend.roles, key)
        /\ backend' = [backend EXCEPT !.roles = Stored(@, key, body, resp)]
        /\ g' = IF out = "returned"
                THEN IF resp = "409" /\ g.reqs = <<>> THEN s
                     ELSE [s EXCEPT !.pc = "binding"]
                ELSE Raise(s, out, "create_role")
        /\ UNCHANGED <<args, max_retries, answers, v, qlog>>
        /\ UNCHANGED execVars

\* self.role_manager.create_role(...)
GrantCreateRole(resp) ==
    LET key == <<args.workspace, RoleName(args.name)>>
        body == PolicyRules(args.verbs, args.resources, args.subresources)
        out == RoleOutcome(resp, args.subresources)
        s == [g EXCEPT !.reqs = Append(@, <<"role", resp>>)]
    IN  /\ g.pc = "role"
        /\ resp \in Possible(backend.roles, key)
        /\ backend' = [backend EXCEPT !.roles = Stored(@, key, body, resp)]
        /\ g' = IF out = "returned"
                THEN [s EXCEPT !.pc = "binding"]
                ELSE Raise(s, out, "create_role")
        /\ UNCHANGED <<args, max_retries, answers, v, qlog>>
        /\ UNCHANGED execVars

\* position the call on the verification of resource ri, or finish
StartVerify(s, ri) ==
    IF ri > Len(args.resources)
    THEN /\ g' = [s EXCEPT !.pc = "done", !.ri = ri]
         /\ v' = VerifyInit
    ELSE /\ g' = [s EXCEPT !.pc = "verify", !.ri = ri,
                           !.checks = Append(@, <<VerifyArgs(args, ri).resource,
                                                  VerifyArgs(args, ri).verb>>)]
         /\ v' = Enter(VerifyArgs(args, ri), VerifyInit, 1, 0, max_retries)

\* self.role_manager.create_role_binding(...)
GrantCreateBinding(resp) ==
    LET key == <<args.workspace, BindingName(args.name)>>
        body == BindingBody(RoleName(args.name), args.name, args.workspace)
        out == BindingOutcome(resp)
        s == [g EXCEPT !.reqs = Append(@, <<"binding", resp>>)]
    IN  /\ g.pc = "binding"
        /\ resp \in Possible(backend.bindings, key)
        /\ backend' = [backend EXCEPT !.bindings = Stored(@, key, body, resp)]
        /\ IF out = "returned"
           THEN StartVerify(s, 1)
           ELSE g' = Raise(s, out, "create_role_binding") /\ v' = v
        /\ UNCHANGED <<args, max_retries, answers, qlog>>
        /\ UNCHANGED execVars

\* one decision query of the verification of resource g.ri
GrantVerify(ans) ==
    LET w == VerifyStep(VerifyArgs(args, g.ri), v, max_retries, ans)
        s == [g EXCEPT !.sars = @ + 1]
    IN  /\ g.pc = "verify"
        /\ v.pc = "query"
        /\ CASE w.pc = "returned" -> StartVerify(s, g.ri + 1)
             [] w.pc = "raised" ->
                    /\ g' = Raise(s, "RuntimeError", "verify_rbac_permissions")
                    /\ v' = w
             [] OTHER -> g' = s /\ v' = w
        /\ UNCHANGED <<args, max_retries, answers, qlog, backend>>
        /\ UNCHANGED execVars

\* the caller repeats the call with the same arguments; g.first keeps how
\* the first call ended and what the backend stored then
GrantCallAgain ==
    /\ g.pc \in {"done", "raised"}
    /\ g.call < MaxCalls
    /\ g' = GrantEntry(g.call + 1,
                       IF g.call = 1
                       THEN <<[raisedBy |-> g.raisedBy,
                               failed |-> ~NoFailureIn(g.reqs),
                               backend |-> backend]>>
                       ELSE g.first)
    /\ v' = VerifyInit
    /\ UNCHANGED <<args, max_retries, answers, qlog, backend>>
    /\ UNCHANGED execVars

GrantRoleOk == GrantCreateRole("ok")
GrantRoleExists == GrantCreateRole("409")
GrantRoleError == GrantCreateRole("error")
GrantBindingOk == GrantCreateBinding("ok")
GrantBindingExists == GrantCreateBinding("409")
GrantBindingError == GrantCreateBinding("error")
GrantVerifyAllowed == GrantVerify("allowed")
GrantVerifyDenied == GrantVerify("denied")
GrantVerifyError == GrantVerify("error")

NextGrant ==
    \/ GrantRoleOk \/ GrantRoleExists \/ GrantRoleError
    \/ GrantBindingOk \/ GrantBindingExists \/ GrantBindingError
    \/ GrantVerifyAllowed \/ GrantVerifyDenied \/ GrantVerifyError
    \/ GrantCallAgain

SpecGrant == InitGrant /\ [][NextGrant]_vars

----------------------------------------------------------------------------
(* Specification SpecExec: one run of TestBase._execute_test_steps over a  *)
(* list of up to MaxSteps steps; the tracked service decides each action's *)
(* outcome                                                                 *)

InitExec ==
    /\ p = ProvIdle
    /\ cl = ClassifyIdle
    /\ td = TeardownIdle
    /\ cm = ClientIdle
    /\ args = <<>>
    /\ max_retries = 0
    /\ answers = <<>>
    /\ v = VerifyInit
    /\ qlog = <<>>
    /\ backend = EmptyBackend
    /\ g = GrantIdle
    /\ \E u \in {NoUser, User("test-user-a")}, w \in {None, "workspace1"} :
          ctx = [NewTestContext EXCEPT !.active_user = u, !.active_workspace = w]
    /\ \E n \in 0..MaxSteps, t \in BOOLEAN :
          ex = [ExecIdle EXCEPT !.pc = IF n = 0 THEN "done" ELSE "loop",
                                !.n = n, !.td_user = t,
                                !.mlflow_workspace = ctx.active_workspace]

\* for i, step in enumerate(test_steps, 1), for a step without user_info
ExecStepBegin(st) ==
    LET e == [ex EXCEPT !.i = @ + 1, !.step = st, !.actionRaised = FALSE,
                        !.actionMsg = None, !.bodyRan = FALSE]
    IN  /\ ex.pc = "loop"
        /\ ~st.user_info
        /\ AfterProvision(ctx, e)
        /\ UNCHANGED provVars

\* the same for a step with user_info: self._create_user(...) comes first
ExecStepBeginUser(st) ==
    /\ ex.pc = "loop"
    /\ st.user_info
    /\ ex' = [ex EXCEPT !.i = @ + 1, !.step = st, !.actionRaised = FALSE,
                        !.actionMsg = None, !.bodyRan = FALSE,
                        !.pc = "provision"]
    /\ UNCHANGED ctx
    /\ UNCHANGED provVars

\* _create_user returned a UserInfo
ExecCreateUserOk(uname) ==
    /\ ex.pc = "provision"
    /\ AfterProvision([ctx EXCEPT !.active_user = User(uname)],
                      [ex EXCEPT !.trace = Append(@, <<ex.i, "user">>)])
    /\ UNCHANGED provVars

\* _create_user raised: the exception leaves _execute_test_steps
ExecCreateUserFail ==
    /\ ex.pc = "provision"
    /\ ex' = [ex EXCEPT !.pc = "raised",
                        !.exc = [type |-> "ProvisioningError", msg |-> <<>>]]
    /\ UNCHANGED ctx
    /\ UNCHANGED provVars

ExecActionOkMut ==
    LET e == [ex EXCEPT !.trace = Append(@, <<ex.i, "action">>)]
        c == [ctx EXCEPT !.last_error = NoError]
    IN  /\ ex.pc = "action"
        /\ ~(CreatesExperiment(ex) /\ ctx.active_workspace = None)
        /\ IF CreatesExperiment(ex)
           THEN AfterAction(add_experiment_for_cleanup(
                                c, Len(ex.created) + 1, ctx.active_workspace),
                            Created(e))
           ELSE AfterAction(c, e)
        /\ UNCHANGED provVars

\* _execute_action, the action returned; action_create_experiment has
\* created the experiment and registered it under active_workspace
ExecActionOk ==
    LET e == [ex EXCEPT !.trace = Append(@, <<ex.i, "action">>)]
    IN  /\ ex.pc = "action"
        /\ ~(CreatesExperiment(ex) /\ ctx.active_workspace = None)
        /\ IF CreatesExperiment(ex)
           THEN AfterAction(add_experiment_for_cleanup(
                                ctx, Len(ex.created) + 1, ctx.active_workspace),
                            Created(e))
           ELSE AfterAction(ctx, e)
        /\ UNCHANGED provVars

\* _execute_action, action_create_experiment created the experiment and
\* add_experiment_for_cleanup raised ValueError: active_workspace is None
ExecActionRegisterFail ==
    LET m == "workspace cannot be empty"
        user == IF ctx.active_user.present THEN ctx.active_user.uname ELSE None
        c == [ctx EXCEPT !.last_error =
                  from_exception(m, ctx.active_workspace, user)]
    IN  /\ ex.pc = "action"
        /\ CreatesExperiment(ex)
        /\ ctx.active_workspace = None
        /\ AfterAction(c, Created([ex EXCEPT
                                      !.trace = @ \o <<<<ex.i, "action">>,
                                                       <<ex.i, "raised">>>>,
                                      !.actionRaised = TRUE,
                                      !.actionMsg = m]))
        /\ UNCHANGED provVars

\* _execute_action, the action raised an exception with message m
ExecActionRaise(m) ==
    LET user == IF ctx.active_user.present THEN ctx.active_user.uname ELSE None
        c == [ctx EXCEPT !.last_error =
                  from_exception(m, ctx.active_workspace, user)]
    IN  /\ ex.pc = "action"
        /\ AfterAction(c, [ex EXCEPT !.trace = @ \o <<<<ex.i, "action">>,
                                                       <<ex.i, "raised">>>>,
                                     !.actionRaised = TRUE,
                                     !.actionMsg = m])
        /\ UNCHANGED provVars

\* _execute_validation raises the short-circuit AssertionError
ExecShortCircuit ==
    /\ ex.pc = "validate"
    /\ ShortCircuits(ctx, ex.step.validate_func)
    /\ ex' = [ex EXCEPT !.pc = "raised",
                        !.trace = Append(@, <<ex.i, "short-circuit">>),
                        !.exc = [type |-> "AssertionError",
                                 msg |-> ShortCircuitMessage(
                                            ctx,
                                            IF ex.step.action_func # None
                                            THEN ex.step.action_func
                                            ELSE "<no-action>")]]
    /\ UNCHANGED ctx
    /\ UNCHANGED provVars

\* _execute_validation runs validate_authentication_denied
ExecValidateDenied ==
    LET r == validate_authentication_denied(ctx)
        e == [ex EXCEPT !.bodyRan = TRUE,
                        !.trace = Append(@, <<ex.i, "validation">>)]
    IN  /\ ex.pc = "validate"
        /\ ~ShortCircuits(ctx, ex.step.validate_func)
        /\ ex.step.validate_func = ExpectDenial
        /\ IF r = None
           THEN EndStep(ctx, e)
           ELSE /\ ex' = [e EXCEPT !.pc = "raised",
                                   !.trace = Append(@, <<ex.i, "failed">>),
                                   !.exc = [type |-> r, msg |-> <<>>]]
                /\ ctx' = ctx
        /\ UNCHANGED provVars

\* _execute_validation runs another validation function, which passes
ExecValidatePass ==
    /\ ex.pc = "validate"
    /\ ~ShortCircuits(ctx, ex.step.validate_func)
    /\ ex.step.validate_func # ExpectDenial
    /\ EndStep(ctx, [ex EXCEPT !.bodyRan = TRUE,
                               !.trace = Append(@, <<ex.i, "validation">>)])
    /\ UNCHANGED provVars

ExecValidateFailMut ==
    /\ ex.pc = "validate"
    /\ ~ShortCircuits(ctx, ex.step.validate_func)
    /\ ex.step.validate_func # ExpectDenial
    /\ EndStep(ctx, [ex EXCEPT !.bodyRan = TRUE,
                               !.trace = @ \o <<<<ex.i, "validation">>,
                                                 <<ex.i, "failed">>>>])
    /\ UNCHANGED provVars

\* _execute_validation runs another validation function, whose assertion fails
ExecValidateFail ==
    /\ ex.pc = "validate"
    /\ ~ShortCircuits(ctx, ex.step.validate_func)
    /\ ex.step.validate_func # ExpectDenial
    /\ ex' = [ex EXCEPT !.pc = "raised", !.bodyRan = TRUE,
                        !.trace = @ \o <<<<ex.i, "validation">>,
                                          <<ex.i, "failed">>>>,
                        !.exc = [type |-> "AssertionError", msg |-> <<>>]]
    /\ UNCHANGED ctx
    /\ UNCHANGED provVars

NextExec ==
    \/ \E st \in TestSteps : ExecStepBegin(st)
    \/ \E st \in TestSteps : ExecStepBeginUser(st)
    \/ \E u \in Identities : ExecCreateUserOk(u)
    \/ ExecCreateUserFail
    \/ ExecActionOk
    \/ ExecActionRegisterFail
    \/ \E m \in ActionMessages : ExecActionRaise(m)
    \/ ExecShortCircuit
    \/ ExecValidateDenied
    \/ ExecValidatePass
    \/ ExecValidateFail

SpecExec == InitExec /\ [][NextExec]_vars

----------------------------------------------------------------------------
(* Specification SpecRequests: the requests of one grant or the action     *)
(* calls of one run of the step executor                                   *)

InitRequests == InitGrant \/ InitExec

NextRequests == NextGrant \/ NextExec

SpecRequests == InitRequests /\ [][NextRequests]_vars

----------------------------------------------------------------------------
(* Specification SpecProvision: one test case of up to MaxCalls steps that  *)
(* each provision an identity (TestBase._create_user inside                *)
(* _execute_test_steps), followed by the teardown of                       *)
(* cleanup_test_resources; the backends decide every answer                *)

provFrame == <<answers, qlog, g, ctx, ex, cl, td>>

InitProvision ==
    /\ args = NoArgs
    /\ max_retries = VerifyMaxRetries
    /\ answers = <<>>
    /\ v = VerifyInit
    /\ qlog = <<>>
    /\ backend = EmptyBackend
    /\ g = GrantIdle
    /\ ctx = NewTestContext
    /\ ex = ExecIdle
    /\ cm = [ClientIdle EXCEPT !.env = set_user_context(AdminToken, CleanEnv).env]
    /\ cl = ClassifyIdle
    /\ td = TeardownIdle
    /\ \E n \in 1..MaxCalls : p = [ProvIdle EXCEPT !.pc = "loop", !.n = n]

\* a step with user_info: _create_user picks the random username
ProvStepBegin(ui, name) ==
    /\ p.pc = "loop"
    /\ p.i < p.n
    /\ args' = [name |-> name, workspace |-> ui.workspace, verbs |-> ui.verbs,
                resources |-> ui.resources, subresources |-> ui.subresources]
    /\ p' = [p EXCEPT !.pc = "create_sa", !.i = @ + 1, !.log = <<>>,
                      !.tok = TokenEnter(TokenMaxRetries), !.ri = 0]
    /\ v' = VerifyInit
    /\ UNCHANGED <<max_retries, backend, cm>>
    /\ UNCHANGED provFrame

\* create_sa_and_get_token: _create_service_account
ProvCreateSA(resp) ==
    LET made == resp \in {"ok", "ok_read_error"}
        s == [p EXCEPT !.sas = IF made THEN @ \cup {args.name} ELSE @,
                       !.log = Append(@, <<"identity", resp>>)]
    IN  /\ p.pc = "create_sa"
        /\ resp \in SaPossible(p.sas, args.name)
        /\ p' = IF SaOutcome(resp) = "returned"
                THEN [s EXCEPT !.pc = "token"]
                ELSE ProvRaise(s, SaOutcome(resp))
        /\ UNCHANGED <<args, max_retries, v, backend, cm>>
        /\ UNCHANGED provFrame

\* one token request of _get_token_via_token_request; when it returns,
\* create_user returns (p.created: the identities this test case created)
\* and _create_user validates the token
ProvTokenRequest(resp) ==
    LET t == TokenStep(p.tok, TokenMaxRetries, resp)
        s == [p EXCEPT !.tok = t,
                       !.log = IF t.pc = "request" THEN @
                               ELSE Append(@, <<"credential", t.pc>>),
                       !.created =
                           IF t.pc = "returned" /\ p.log[1] = <<"identity", "ok">>
                           THEN @ \cup {args.name} ELSE @]
    IN  /\ p.pc = "token"
        /\ p' = CASE t.pc = "raised" -> ProvRaise(s, t.exc)
                  [] t.pc = "returned" ->
                        IF TokenAccepted(t.token)
                        THEN [s EXCEPT !.pc = "role"]
                        ELSE ProvRaise(s, "ValueError")
                  [] OTHER -> s
        /\ UNCHANGED <<args, max_retries, v, backend, cm>>
        /\ UNCHANGED provFrame

\* user_manager.create_role: role_manager.create_role
ProvCreateRole(resp) ==
    LET key == <<args.workspace, RoleName(args.name)>>
        body == PolicyRules(args.verbs, args.resources, args.subresources)
        out == RoleOutcome(resp, args.subresources)
        s == [p EXCEPT !.log = Append(@, <<"role", resp>>)]
    IN  /\ p.pc = "role"
        /\ resp \in Possible(backend.roles, key)
        /\ backend' = [backend EXCEPT !.roles = Stored(@, key, body, resp)]
        /\ p' = IF out = "returned"
                THEN [s EXCEPT !.pc = "binding"]
                ELSE ProvRaise(s, out)
        /\ UNCHANGED <<args, max_retries, v, cm>>
        /\ UNCHANGED provFrame

\* position on the verification of resource ri, or leave create_role
ProvStartVerify(s, ri) ==
    IF ri > Len(args.resources)
    THEN /\ p' = [s EXCEPT !.pc = "client", !.ri = ri]
         /\ v' = VerifyInit
    ELSE /\ p' = [s EXCEPT !.pc = "verify", !.ri = ri]
         /\ v' = Enter(VerifyArgs(args, ri), VerifyInit, 1, 0, max_retries)

\* user_manager.create_role: role_manager.create_role_binding
ProvCreateBinding(resp) ==
    LET key == <<args.workspace, BindingName(args.name)>>
        body == BindingBody(RoleName(args.name), args.name, args.workspace)
        out == BindingOutcome(resp)
        s == [p EXCEPT !.log = Append(@, <<"binding", resp>>)]
    IN  /\ p.pc = "binding"
        /\ resp \in Possible(backend.bindings, key)
        /\ backend' = [backend EXCEPT !.bindings = Stored(@, key, body, resp)]
        /\ IF out = "returned"
           THEN ProvStartVerify(s, 1)
           ELSE p' = ProvRaise(s, out) /\ v' = v
        /\ UNCHANGED <<args, max_retries, cm>>
        /\ UNCHANGED provFrame

\* user_manager.create_role: one decision query of verify_rbac_permissions
ProvVerify(ans) ==
    LET w == VerifyStep(VerifyArgs(args, p.ri), v, max_retries, ans)
        s == [p EXCEPT !.log = Append(@, <<args.resources[p.ri], ans>>)]
    IN  /\ p.pc = "verify"
        /\ v.pc = "query"
        /\ CASE w.pc = "returned" -> ProvStartVerify(s, p.ri + 1)
             [] w.pc = "raised" -> p' = ProvRaise(s, "RuntimeError") /\ v' = w
             [] OTHER -> p' = p /\ v' = w
        /\ UNCHANGED <<args, max_retries, backend, cm>>
        /\ UNCHANGED provFrame

\* set_user_context(user_info), then the UserInfo is registered for cleanup
\* and the step's action is reached; ok is whether MlflowClient(...) succeeds
ProvClient(ok) ==
    LET s == [p EXCEPT !.log = @ \o <<<<"client", "constructed">>,
                                      <<"registered", args.name>>>>,
                       !.users_to_delete =
                           Append(@, [uname |-> args.name,
                                      workspace |-> args.workspace])]
    IN  /\ p.pc = "client"
        /\ cm' = [cm EXCEPT !.env = set_user_context(UserToken(args.name), cm.env).env]
        /\ p' = IF ok THEN [s EXCEPT !.pc = "action"]
                ELSE ProvRaise([p EXCEPT !.log = Append(@, <<"client", "raised">>)],
                               "MlflowException")
        /\ UNCHANGED <<args, max_retries, v, backend>>
        /\ UNCHANGED provFrame

\* the step's action and validation; raises is whether the validation raises
ProvAction(raises) ==
    LET s == [p EXCEPT !.acted = @ \cup {p.i}]
    IN  /\ p.pc = "action"
        /\ p' = IF raises
                THEN [s EXCEPT !.pc = "teardown", !.exc = "AssertionError"]
                ELSE IF p.i < p.n THEN [s EXCEPT !.pc = "loop"]
                     ELSE [s EXCEPT !.pc = "teardown"]
        /\ UNCHANGED <<args, max_retries, v, backend, cm>>
        /\ UNCHANGED provFrame

\* the stored objects without the one of this key
Removed(store, key) == SelectSeq(store, LAMBDA e : e.key # key)

\* the answers possible for a deletion
DeletePossible(exists) == IF exists THEN {"ok", "error"} ELSE {"404", "error"}

\* cleanup_test_resources: user_manager.delete_user for the next registered
\* user; sa, role and binding are the backend's answers to the deletions
ProvTeardownUser(sa, role, binding) ==
    LET u == p.users_to_delete[p.di + 1]
        rkey == <<u.workspace, RoleName(u.uname)>>
        bkey == <<u.workspace, BindingName(u.uname)>>
        went == SaDeleteOutcome(sa) = "returned"
    IN  /\ p.pc = "teardown"
        /\ p.di < Len(p.users_to_delete)
        /\ sa \in DeletePossible(u.uname \in p.sas)
        /\ role \in DeletePossible(Exists(backend.roles, rkey))
        /\ binding \in DeletePossible(Exists(backend.bindings, bkey))
        /\ p' = [p EXCEPT
                   !.di = @ + 1,
                   !.sas = IF sa = "ok" THEN @ \ {u.uname} ELSE @,
                   !.deleted = @ \o <<<<u.uname, "serviceaccount">>>>
                       \o (IF went THEN <<<<u.uname, "role">>,
                                          <<u.uname, "binding">>>>
                           ELSE <<>>)]
        /\ backend' =
              IF went
              THEN [roles |-> IF role = "ok" THEN Removed(backend.roles, rkey)
                              ELSE backend.roles,
                    bindings |-> IF binding = "ok"
                                 THEN Removed(backend.bindings, bkey)
                                 ELSE backend.bindings]
              ELSE backend
        /\ UNCHANGED <<args, max_retries, v, cm>>
        /\ UNCHANGED provFrame

\* the cleanup loop is over
ProvTeardownDone ==
    /\ p.pc = "teardown"
    /\ p.di = Len(p.users_to_delete)
    /\ p' = [p EXCEPT !.pc = "finished"]
    /\ UNCHANGED <<args, max_retries, v, backend, cm>>
    /\ UNCHANGED provFrame

NextProvision ==
    \/ \E ui \in ProvUserInfos, name \in Identities : ProvStepBegin(ui, name)
    \/ \E resp \in SaResponses : ProvCreateSA(resp)
    \/ \E resp \in TokenResponses : ProvTokenRequest(resp)
    \/ \E resp \in Responses : ProvCreateRole(resp)
    \/ \E resp \in Responses : ProvCreateBinding(resp)
    \/ \E ans \in Answers : ProvVerify(ans)
    \/ \E ok \in BOOLEAN : ProvClient(ok)
    \/ \E raises \in BOOLEAN : ProvAction(raises)
    \/ \E sa \in SaDeleteResponses, role, binding \in {"ok", "404", "error"} :
          ProvTeardownUser(sa, role, binding)
    \/ ProvTeardownDone

SpecProvision == InitProvision /\ [][NextProvision]_vars

----------------------------------------------------------------------------
(* Specification SpecToken: one call of _get_token_via_token_request with  *)
(* a max_retries of 0..MaxRetriesBound or the default; the identity        *)
(* backend decides each answer, kept in answers                            *)

InitToken ==
    /\ args = NoArgs
    /\ max_retries \in 0..MaxRetriesBound \cup {TokenMaxRetries}
    /\ answers = <<>>
    /\ v = VerifyInit
    /\ qlog = <<>>
    /\ backend = EmptyBackend
    /\ g = GrantIdle
    /\ ctx = NewTestContext
    /\ ex = ExecIdle
    /\ cm = ClientIdle
    /\ cl = ClassifyIdle
    /\ td = TeardownIdle
    /\ p = [ProvIdle EXCEPT !.pc = "token_request",
                            !.tok = TokenEnter(max_retries)]

\* one iteration of for attempt in range(max_retries)
TokenRequest(resp) ==
    /\ p.pc = "token_request"
    /\ p.tok.pc = "request"
    /\ p' = [p EXCEPT !.tok = TokenStep(@, max_retries, resp)]
    /\ answers' = Append(answers, resp)
    /\ UNCHANGED <<args, max_retries, v, qlog, backend, g, ctx, ex, cm, cl, td>>

NextToken == \E resp \in TokenResponses : TokenRequest(resp)

SpecToken == InitToken /\ [][NextToken]_vars

----------------------------------------------------------------------------
(* Specification SpecTeardown: the teardown of cleanup_test_resources over *)
(* registries of up to MaxRegistered entries; the tracked service and the  *)
(* identity backend decide every answer                                    *)

InitTeardown ==
    /\ args = NoArgs
    /\ max_retries = 0
    /\ answers = <<>>
    /\ v = VerifyInit
    /\ qlog = <<>>
    /\ backend = EmptyBackend
    /\ g = GrantIdle
    /\ ctx = NewTestContext
    /\ ex = ExecIdle
    /\ p = ProvIdle
    /\ cm = ClientIdle
    /\ cl = ClassifyIdle
    /\ \E l \in Registries, w \in {None, "workspace1"} :
          td = [TeardownIdle EXCEPT !.pc = "loop", !.todo = l,
                                    !.original_workspace = w, !.workspace = w]

teardownFrame ==
    <<args, max_retries, answers, v, qlog, backend, g, ctx, ex, p, cm, cl>>

\* one iteration of the loop over experiments_to_delete, runs_to_delete,
\* models_to_delete or users_to_delete
TeardownResource(sw, get, del) ==
    LET item == td.todo[td.k + 1]
    IN  /\ td.pc = "loop"
        /\ td.k < Len(td.todo)
        /\ sw \in SwitchAnswers(item)
        /\ get \in GetAnswers(item, sw)
        /\ del \in DeleteAnswers(item, get)
        /\ td' = TeardownStep(td, item, sw, get, del)
        /\ UNCHANGED teardownFrame

\* after the loops: mlflow.set_workspace(original_workspace) inside try, then
\* the summary; ok is whether set_workspace returns
TeardownRestore(ok) ==
    /\ td.pc = "loop"
    /\ td.k = Len(td.todo)
    /\ td' = [td EXCEPT !.pc = "finished",
                        !.workspace = IF td.original_workspace # None /\ ok
                                      THEN td.original_workspace ELSE @]
    /\ UNCHANGED teardownFrame

NextTeardown ==
    \/ \E sw \in {"ok", "error", "not_called"},
          get \in {"live", "deleted", "not_found", "error", "not_called"},
          del \in {"ok", "error", "not_called"} : TeardownResource(sw, get, del)
    \/ \E ok \in BOOLEAN : TeardownRestore(ok)

SpecTeardown == InitTeardown /\ [][NextTeardown]_vars

----------------------------------------------------------------------------
(* Specification SpecClient: up to MaxThreads threads, each in one call of *)
(* ClientManager.create_mlflow_client, interleaved statement by statement  *)

InitClient ==
    /\ args = NoArgs
    /\ max_retries = 0
    /\ answers = <<>>
    /\ v = VerifyInit
    /\ qlog = <<>>
    /\ backend = EmptyBackend
    /\ g = GrantIdle
    /\ ctx = NewTestContext
    /\ ex = ExecIdle
    /\ p = ProvIdle
    /\ cl = ClassifyIdle
    /\ td = TeardownIdle
    /\ \E n \in 1..MaxThreads :
       \E cs \in [1..n -> ClientCreds] :
       \E e \in {CleanEnv, set_user_context(AdminToken, CleanEnv).env} :
          cm = [env |-> e, lock |-> 0, last |-> 0,
                calls |-> [t \in 1..n |-> NewCall(cs[t])]]

clientFrame ==
    <<args, max_retries, answers, v, qlog, backend, g, ctx, ex, p, cl, td>>

\* thread t executes its next statement, which is the one at position pc
ClientAt(t, pc) ==
    LET r == ClientStep(cm.calls[t], cm.env)
    IN  /\ t \in DOMAIN cm.calls
        /\ cm.calls[t].pc = pc
        /\ cm' = [cm EXCEPT !.calls[t] = r.c, !.env = r.env]
        /\ UNCHANGED clientFrame

\* the credential validation before the lock
ClientValidate(t) == ClientAt(t, "start")

\* with _mlflow_client_lock:
ClientAcquire(t) ==
    /\ t \in DOMAIN cm.calls
    /\ cm.calls[t].pc = "acquire"
    /\ LockFree(cm.lock)
    /\ cm' = [cm EXCEPT !.calls[t] = Locked(@), !.lock = t, !.last = t]
    /\ UNCHANGED clientFrame

\* del os.environ[var] for the next of auth_vars
ClientClear(t) == ClientAt(t, "clear")

\* mlflow.set_tracking_uri(tracking_uri)
ClientSetUri(t) == ClientAt(t, "set_uri")

\* os.environ['MLFLOW_TRACKING_USERNAME'] = username, or
\* os.environ['MLFLOW_TRACKING_TOKEN'] = token, or the warning
ClientSetCreds(t) == ClientAt(t, "set_creds")

\* os.environ['MLFLOW_TRACKING_PASSWORD'] = password
ClientSetPassword(t) == ClientAt(t, "set_password")

\* MlflowClient(tracking_uri=tracking_uri) reads the environment; the call
\* returns and leaves the with block
ClientConstruct(t) ==
    LET r == ClientStep(cm.calls[t], cm.env)
    IN  /\ t \in DOMAIN cm.calls
        /\ cm.calls[t].pc = "construct"
        /\ cm' = [cm EXCEPT !.calls[t] = r.c, !.env = r.env, !.lock = 0]
        /\ UNCHANGED clientFrame

NextClient ==
    \E t \in 1..MaxThreads :
        \/ ClientValidate(t)
        \/ ClientAcquire(t)
        \/ ClientClear(t)
        \/ ClientSetUri(t)
        \/ ClientSetCreds(t)
        \/ ClientSetPassword(t)
        \/ ClientConstruct(t)

SpecClient == InitClient /\ [][NextClient]_vars

----------------------------------------------------------------------------
(* Specification SpecClassify: one error message, classified up to         *)
(* MaxCalls times, and the category predicates asked of the result         *)

InitClassify ==
    /\ args = NoArgs
    /\ max_retries = 0
    /\ answers = <<>>
    /\ v = VerifyInit
    /\ qlog = <<>>
    /\ backend = EmptyBackend
    /\ g = GrantIdle
    /\ ctx = NewTestContext
    /\ ex = ExecIdle
    /\ p = ProvIdle
    /\ cm = ClientIdle
    /\ td = TeardownIdle
    /\ \E P \in ClassifyInputs : cl = [ClassifyIdle EXCEPT !.msg = P]

classifyFrame ==
    <<args, max_retries, answers, v, qlog, backend, g, ctx, ex, p, cm, td>>

\* ErrorResponse._classify_error(error_message)
ClassifyCall ==
    /\ Len(cl.calls) < MaxCalls
    /\ cl' = [cl EXCEPT !.calls = Append(@, _classify_error(cl.msg))]
    /\ UNCHANGED classifyFrame

\* error.is_permission_error(), on the result of the first call
ClassifyIsPermission ==
    /\ cl.calls # <<>>
    /\ "permission" \notin cl.asked
    /\ cl' = [cl EXCEPT !.asked = @ \cup {"permission"},
                        !.perm = is_permission_error(ErrorOf(cl.calls[1]))]
    /\ UNCHANGED classifyFrame

\* error.is_authentication_error(), on the result of the first call
ClassifyIsAuthentication ==
    /\ cl.calls # <<>>
    /\ "authentication" \notin cl.asked
    /\ cl' = [cl EXCEPT !.asked = @ \cup {"authentication"},
                        !.auth = is_authentication_error(ErrorOf(cl.calls[1]))]
    /\ UNCHANGED classifyFrame

NextClassify ==
    \/ ClassifyCall
    \/ ClassifyIsPermission
    \/ ClassifyIsAuthentication

SpecClassify == InitClassify /\ [][NextClassify]_vars

----------------------------------------------------------------------------
(* Properties of verify_rbac_permissions (manager/rbac.py) *)

VerifyDone == v.pc \in {"returned", "raised"}

AllDeniedScript == \A i \in DOMAIN answers : answers[i] = "denied"

QueriesOf(gi) == CountIn(qlog, LAMBDA e : e[1] = gi)

SleepsOf(gi) == CountIn(v.sleeps, LAMBDA e : e[1] = gi)

\* C1: against a backend that answers 'denied' to every query, the call
\* never issues more than (number of qualifiers x max_retries) decision
\* queries, and it terminates.
C1_VerifierTermination ==
    /\ [](AllDeniedScript =>
            v.queries <= Len(api_groups_to_try) * max_retries)
    /\ (AllDeniedScript ~> VerifyDone)

C1_Witness ==
    /\ AllDeniedScript
    /\ max_retries >= 2
    /\ v.pc = "raised"
    /\ v.queries = Len(api_groups_to_try) * max_retries

\* the script answers 'denied' to queries 1..k and 'allowed' to query k+1
DeniedThenAllowed(k) ==
    /\ \A i \in 1..k : answers[i] = "denied"
    /\ answers[k + 1] = "allowed"

\* C2: if the first k < max_retries queries on the first qualifier are
\* denied and query k+1 is allowed, the call returns normally after exactly
\* k+1 queries, issues no query after the allowed one, and never queries a
\* second qualifier.
C2_SuccessPath ==
    \A k \in 0..(max_retries - 1) :
        DeniedThenAllowed(k) =>
            /\ v.queries <= k + 1
            /\ v.pc # "raised"
            /\ v.pc = "returned" <=> v.queries = k + 1
            /\ \A i \in DOMAIN qlog : qlog[i][1] = 1

C2_Witness ==
    /\ max_retries >= 3
    /\ DeniedThenAllowed(2)
    /\ v.pc = "returned"
    /\ v.queries = 3

SomeAllowed == \E i \in DOMAIN qlog : qlog[i][2] = "allowed"

Flip(ans) == IF ans = "error" THEN "denied" ELSE "error"

FlipAt(script, i) == [script EXCEPT ![i] = Flip(@)]

NoAllowedScript == \A i \in DOMAIN answers : answers[i] # "allowed"

\* C4: for a script without 'allowed', exchanging one 'error' answer for
\* 'denied' (or one 'denied' for 'error') changes neither the number of
\* queries, nor the number of backoff sleeps, nor the outcome.
C4_FailureUniformity ==
    (VerifyDone /\ NoAllowedScript) =>
        \A i \in DOMAIN answers :
            LET r == VerifyRun(args, VerifyInit, max_retries, FlipAt(answers, i))
            IN  /\ r.queries = v.queries
                /\ Len(r.sleeps) = Len(v.sleeps)
                /\ r.pc = v.pc

\* cumulative sleep time in units of initialDelay / 5^ScriptLen
SleepTotal(sleeps) ==
    LET F[n \in 0..Len(sleeps)] ==
            IF n = 0 THEN 0
            ELSE F[n - 1] + Pow(6, sleeps[n][2]) * Pow(5, ScriptLen - sleeps[n][2])
    IN  F[Len(sleeps)]

\* Sum_{i=0..n} 1.2^i in the same units
BackoffSum(n) ==
    LET F[i \in 0..n] ==
            Pow(6, i) * Pow(5, ScriptLen - i) + (IF i = 0 THEN 0 ELSE F[i - 1])
    IN  F[n]

\* C5: the j-th sleep lasts initialDelay x 1.2^(j-1), each qualifier sleeps
\* at most max_retries+1 times, and the cumulative sleep never exceeds
\* qualifiers x Sum_{i=0..max_retries} initialDelay x 1.2^i.
C5_BackoffBound ==
    /\ \A j \in DOMAIN v.sleeps : v.sleeps[j][2] = j - 1
    /\ \A gi \in DOMAIN api_groups_to_try : SleepsOf(gi) <= max_retries + 1
    /\ SleepTotal(v.sleeps) <= Len(api_groups_to_try) * BackoffSum(max_retries)

C5_Witness ==
    /\ v.pc = "raised"
    /\ max_retries >= 2
    /\ Len(v.sleeps) = max_retries
    /\ \E i \in DOMAIN qlog : qlog[i][2] = "denied"

Names(msg, x) == x \in Range(msg)

NamesAll(msg, xs) == \A x \in xs : Names(msg, x)

\* the qualifiers for which at least one decision query was issued
Attempted == {api_groups_to_try[qlog[i][1]] : i \in DOMAIN qlog}

----------------------------------------------------------------------------
(* Properties of verify_rbac_permissions (managers/k8s/rbac.py) *)

\* number of queries among the first i that went to qualifier gi
QueriesUpTo(i, gi) == Cardinality({j \in 1..i : qlog[j][1] = gi})

\* C6: a 'denied' answer for a qualifier that still has retry budget is
\* followed by a query of the SAME qualifier; qualifiers are queried in
\* list order and an earlier qualifier is never revisited.
C6_RetrySameQualifier ==
    /\ \A i \in DOMAIN qlog :
          (qlog[i][2] = "denied" /\ QueriesUpTo(i, qlog[i][1]) < max_retries) =>
              IF i < Len(qlog)
              THEN qlog[i + 1][1] = qlog[i][1]
              ELSE v.pc = "query" /\ v.gi = qlog[i][1]
    /\ \A i, j \in DOMAIN qlog : i < j => qlog[i][1] <= qlog[j][1]


----------------------------------------------------------------------------
(* Properties of the provisioner (manager/rbac.py, manager/user.py) *)

Provisioner == {"create_role", "create_role_binding"}

\* the backend has answered every creation with ok or 409 so far
BackendAccepts ==
    /\ NoFailureIn(g.reqs)
    /\ \A c \in DOMAIN g.first : ~g.first[c].failed

\* C8: calling the provisioner twice with identical arguments against a
\* backend that accepts (ok, then 409) raises no error on either call, and
\* the stored role and binding after the second call are those stored after
\* the first call.
C8_GrantIdempotence ==
    (BackendAccepts /\ g.call <= 2) =>
        /\ g.raisedBy \notin Provisioner
        /\ \A c \in DOMAIN g.first : g.first[c].raisedBy \notin Provisioner
        /\ (g.call = 2 /\ g.pc \notin {"role", "binding"}) =>
               backend = g.first[1].backend

RequestsOf(kind) == CountIn(g.reqs, LAMBDA e : e[1] = kind)

RaisedFrom(kind) ==
    IF kind = "role" THEN "create_role" ELSE "create_role_binding"

\* C9: within a call the binding request is issued only after the role
\* request was answered ok or 409; a role or binding request answered with
\* any other error is the last request of the call (no later provisioning
\* or verification request, no retry) and its error propagates.
C9_ProvisioningOrder ==
    /\ \A i \in DOMAIN g.reqs :
          g.reqs[i][1] = "binding" =>
              \E j \in 1..(i - 1) :
                  g.reqs[j][1] = "role" /\ g.reqs[j][2] \in {"ok", "409"}
    /\ \A i \in DOMAIN g.reqs :
          g.reqs[i][2] = "error" =>
              /\ i = Len(g.reqs)
              /\ g.sars = 0
              /\ g.pc = "raised"
              /\ g.exc = "ApiException"
              /\ g.raisedBy = RaisedFrom(g.reqs[i][1])
    /\ RequestsOf("role") <= 1
    /\ RequestsOf("binding") <= 1

C9_Witness ==
    /\ g.reqs = << <<"role", "ok">>, <<"binding", "error">> >>
    /\ g.pc = "raised"
    /\ g.raisedBy = "create_role_binding"

----------------------------------------------------------------------------
(* Properties of the step executor (tests/base.py) *)

\* the current step's action raised and its validation is a validation other
\* than the expect-denial one
UnexpectedFailure ==
    /\ ex.step.action_func # None
    /\ ex.actionRaised
    /\ ex.step.validate_func \notin {None, ExpectDenial}

\* C10: a step whose action raises and whose validation is not the
\* expect-denial validation ends in an AssertionError whose message contains
\* the classified error's code, the action name, the identity and the scope,
\* and the validation function's body is never invoked.
C10_ShortCircuit ==
    (UnexpectedFailure /\ ex.pc # "validate") =>
        /\ ex.pc = "raised"
        /\ ex.exc.type = "AssertionError"
        /\ Names(ex.exc.msg, _classify_error(Substrings(ex.actionMsg)))
        /\ Names(ex.exc.msg, ex.step.action_func)
        /\ Names(ex.exc.msg, IF ctx.active_user.present
                             THEN ctx.active_user.uname ELSE "unknown")
        /\ Names(ex.exc.msg, IF ctx.active_workspace # None
                             THEN ctx.active_workspace ELSE "unknown")
        /\ ~ex.bodyRan
        /\ \A k \in DOMAIN ex.trace : ex.trace[k] # <<ex.i, "validation">>

C10_Witness ==
    /\ UnexpectedFailure
    /\ ex.pc = "raised"
    /\ ex.i = 2
    /\ ctx.active_user.present
    /\ ctx.last_error.code = "PERMISSION_DENIED"

\* the current step's action was invoked and returned without an exception
ActionCompleted ==
    /\ ex.step.action_func # None
    /\ <<ex.i, "action">> \in Range(ex.trace)
    /\ ~ex.actionRaised

\* C11: a step whose own action completes without exception and whose
\* validation is not the expect-denial validation has its validation function
\* invoked, even when an earlier step's action failed.
C11_CurrentStepOnly ==
    (/\ ActionCompleted
     /\ ex.step.validate_func \notin {None, ExpectDenial}
     /\ ex.pc # "validate") => ex.bodyRan

\* C12: _execute_action always returns normally; when the action raised,
\* last_error afterwards is the classification of the exception's message,
\* carrying the message and the identity and scope of the context.
C12_ActionFailuresClassified ==
    [][ex.pc = "action" =>
        /\ ex'.pc # "raised"
        /\ ex'.actionRaised =>
            /\ ctx'.last_error.present
            /\ ctx'.last_error.code = _classify_error(Substrings(ex'.actionMsg))
            /\ ctx'.last_error.message = ex'.actionMsg
            /\ ctx.active_user.present =>
                  Names(ctx'.last_error.details, ctx.active_user.uname)
            /\ ctx.active_workspace # None =>
                  Names(ctx'.last_error.details, ctx.active_workspace)
        /\ ~ex'.actionRaised => ctx'.last_error = ctx.last_error]_vars

C12_Witness ==
    /\ ex.actionRaised
    /\ ex.pc = "loop"
    /\ ctx.active_user.present
    /\ ctx.last_error.code = "RESOURCE_NOT_FOUND"
    /\ ctx.last_error.message = ex.actionMsg

\* C13: a step whose action raises an error of the permission category and
\* whose validation is the expect-denial validation passes its validation,
\* and the executor continues with the next step.
C13_ExpectedDenial ==
    (/\ ex.step.action_func # None
     /\ ex.actionRaised
     /\ is_permission_error(ctx.last_error)
     /\ ex.step.validate_func = ExpectDenial
     /\ ex.pc # "validate") =>
        /\ ex.pc \in {"loop", "done"}
        /\ ex.bodyRan
        /\ ex.pc = "done" => ex.i = ex.n

\* the current step has no validation and its action raised
FailedWithoutValidation ==
    /\ ex.step.action_func # None
    /\ ex.actionRaised
    /\ ex.step.validate_func = None

\* C14: a step that has no validation and whose action fails does not end
\* the sequence: the executor never raises for it, stops only when no step is
\* left, and otherwise invokes the next step's action.
C14_NoAutoAbort ==
    /\ [](FailedWithoutValidation =>
            /\ ex.pc \in {"loop", "done"}
            /\ ex.pc = "done" => ex.i = ex.n)
    /\ [][(/\ FailedWithoutValidation
           /\ ex.pc = "loop"
           /\ ex'.i = ex.i + 1
           /\ ~ex'.step.user_info
           /\ ex'.step.action_func # None) => ex'.pc = "action"]_vars

C14_Witness ==
    /\ ex.i = 2
    /\ ex.pc = "action"
    /\ <<1, "raised">> \in Range(ex.trace)
    /\ <<1, "validation">> \notin Range(ex.trace)
    /\ <<1, "short-circuit">> \notin Range(ex.trace)

\* the current step's expect-denial validation ran and passed
DenialPassed ==
    /\ ex.step.validate_func = ExpectDenial
    /\ ex.bodyRan
    /\ ex.pc \in {"loop", "done"}

\* C27: the expect-denial validation of a step passes only if that step's
\* own action raised an error of the permission category, never on an error
\* an earlier step left in the context.
C27_DenialNeedsOwnError ==
    (DenialPassed /\ ex.step.action_func # None) =>
        /\ ex.actionRaised
        /\ is_permission_error(ctx.last_error)

\* C28: an action that completes without exception leaves last_error as it
\* was, neither cleared nor overwritten; last_error changes only when an
\* action raises.
C28_SuccessKeepsLastError ==
    [][/\ (ex.pc = "action" /\ ~ex'.actionRaised) =>
              ctx'.last_error = ctx.last_error
       /\ ctx'.last_error # ctx.last_error =>
              (ex.pc = "action" /\ ex'.actionRaised)]_vars

C28_Witness ==
    /\ ex.i = 2
    /\ ActionCompleted
    /\ <<1, "raised">> \in Range(ex.trace)
    /\ ctx.last_error.present
    /\ ctx.last_error.code = "PERMISSION_DENIED"

\* position of an event within its step
EventRank(kind) ==
    CASE kind = "user" -> 1
      [] kind = "workspace" -> 2
      [] kind = "action" -> 3
      [] kind = "raised" -> 4
      [] kind \in {"validation", "short-circuit"} -> 5
      [] OTHER -> 6

\* event a comes before event b in step order and, within a step, in the
\* order provisioning, scope switch, action, validation
EventBefore(a, b) ==
    \/ a[1] < b[1]
    \/ a[1] = b[1] /\ EventRank(a[2]) < EventRank(b[2])

\* C29: steps run in list order, each as identity provisioning, scope
\* switch, action, validation; an assertion raised by a validation or by the
\* short-circuit leaves _execute_test_steps as it was raised, and nothing of
\* that step or of a later step runs after it.
C29_StepOrderingAndAbort ==
    /\ [](/\ \A k \in 1..(Len(ex.trace) - 1) :
                EventBefore(ex.trace[k], ex.trace[k + 1])
          /\ \A k \in DOMAIN ex.trace : ex.trace[k][1] <= ex.i
          /\ \A k \in DOMAIN ex.trace :
                ex.trace[k][2] \in {"short-circuit", "failed"} =>
                   /\ k = Len(ex.trace)
                   /\ ex.trace[k][1] = ex.i
                   /\ ex.pc = "raised"
                   /\ ex.exc.type =
                         IF ex.trace[k][2] = "failed"
                               /\ ex.step.validate_func = ExpectDenial
                         THEN validate_authentication_denied(ctx)
                         ELSE "AssertionError"
                   /\ ex.trace[k][2] = "short-circuit" =>
                         ex.exc.msg = ShortCircuitMessage(
                                         ctx,
                                         IF ex.step.action_func # None
                                         THEN ex.step.action_func
                                         ELSE "<no-action>"))
    /\ [][/\ ex'.i \in {ex.i, ex.i + 1}
           /\ ex.pc = "raised" => (ex' = ex /\ ctx' = ctx)]_vars

C29_Witness ==
    /\ ex.pc = "raised"
    /\ ex.n = 2
    /\ ex.exc.type = "AssertionError"
    /\ ex.trace = << <<1, "user">>, <<1, "workspace">>, <<1, "action">>,
                     <<1, "validation">>, <<1, "failed">> >>

----------------------------------------------------------------------------
(* Properties of identity provisioning and teardown (tests/base.py) *)

\* C15: the action of a step that specifies an identity is invoked only
\* after identity creation, role creation, binding creation and a successful
\* authorization verification of every requested resource for that identity
\* have completed, in this order; if any of them fails, the step's action
\* and validation are never invoked.
C15_ProvisionBeforeAct ==
    /\ p.pc = "action" => Provisioned(p.log, args)
    /\ p.i \in p.acted => Provisioned(p.log, args)
    /\ p.failed # 0 => p.failed \notin p.acted
    /\ (p.i > 0 /\ ~Provisioned(p.log, args)) => p.pc \notin {"action", "loop"}

C15_Witness ==
    /\ p.pc = "action"
    /\ p.i = 2
    /\ Len(args.resources) = 2
    /\ Provisioned(p.log, args)
    /\ p.log[3] = <<"role", "409">>

\* the current step's identity has had a role, a binding or a client made
TokenInUse ==
    \E k \in DOMAIN p.log : p.log[k][1] \in {"role", "binding", "client"}

\* C16: a credential that is too short or not in three-part form is never
\* accepted: provisioning raises before any role or binding is created and
\* before any authenticated client is constructed.
C16_CredentialValidation ==
    /\ TokenInUse =>
          /\ p.tok.token.len >= K8sTokenMinLen
          /\ p.tok.token.parts = 3
    /\ p.pc \in {"role", "binding", "verify", "client", "action"} =>
          /\ p.tok.token.len >= K8sTokenMinLen
          /\ p.tok.token.parts = 3

\* C17: every identity successfully created in the identity backend during
\* the test case is registered for cleanup and has its deletion attempted
\* during teardown.
C17_CreatedIdentitiesCleaned ==
    /\ p.pc \in {"teardown", "finished"} =>
          \A name \in p.created :
             \E k \in DOMAIN p.users_to_delete :
                p.users_to_delete[k].uname = name
    /\ p.pc = "finished" =>
          \A name \in p.created : <<name, "serviceaccount">> \in Range(p.deleted)

----------------------------------------------------------------------------
(* Properties of ClientManager.create_mlflow_client (utils/client.py) *)

\* C18: for every interleaving of concurrent create_mlflow_client calls, the
\* ambient credential state each call's client is constructed from holds
\* exactly the credentials passed to that call and none written by another
\* call.
C18_AtomicClientConstruction ==
    \A t \in DOMAIN cm.calls :
        /\ cm.calls[t].pc = "construct" =>
              AuthOf(cm.env) = ExpectedEnv(cm.calls[t].creds)
        /\ cm.calls[t].pc = "returned" =>
              cm.calls[t].seen = ExpectedEnv(cm.calls[t].creds)

C18_Witness ==
    /\ Len(cm.calls) = 2
    /\ cm.calls[1].pc = "returned"
    /\ cm.calls[2].pc = "construct"
    /\ cm.calls[1].seen.username = "bob"
    /\ cm.calls[2].creds.token = "token-a"
    /\ cm.calls[2].creds.username = None

----------------------------------------------------------------------------
(* Properties of the rules K8RoleManager.create_role emits (manager/rbac.py) *)

\* the role of the call's name is stored in the backend
RoleStored == Exists(backend.roles, <<args.workspace, RoleName(args.name)>>)

\* the rules of the stored role
StoredRules ==
    backend.roles[IndexOf(backend.roles,
                          <<args.workspace, RoleName(args.name)>>, 1)].body

\* a rule of the MLflow API group over resource kinds
IsMainRule(r) ==
    /\ r.api_groups = <<"mlflow.kubeflow.org">>
    /\ Range(r.resources) \subseteq Range(ResourceType)

\* a rule of the MLflow API group over sub-resources
IsSubRule(r) ==
    /\ r.api_groups = <<"mlflow.kubeflow.org">>
    /\ r.resources # <<>>
    /\ Range(r.resources) \subseteq Range(get_all_sub_resources)

\* C19: with no explicit sub-resources, a non-empty resource-kind set gives
\* exactly one main-resource rule, whose verbs are the requested verbs and
\* whose resources are the requested kinds; an empty resource-kind set gives
\* no main-resource rule.
C19_MainResourceRule ==
    (RoleStored /\ SubOrEmpty(args.subresources) = <<>>) =>
        LET main == {k \in DOMAIN StoredRules : IsMainRule(StoredRules[k])}
        IN  IF args.resources # <<>>
            THEN /\ Cardinality(main) = 1
                 /\ \A k \in main :
                       /\ Range(StoredRules[k].verbs) = Range(args.verbs)
                       /\ Len(StoredRules[k].verbs) = Len(args.verbs)
                       /\ Range(StoredRules[k].resources) = Range(args.resources)
                       /\ Len(StoredRules[k].resources) = Len(args.resources)
            ELSE main = {}

C19_Witness ==
    /\ RoleStored
    /\ g.pc = "binding"
    /\ ~args.subresources.given
    /\ args.verbs = <<"get", "list">>
    /\ args.resources = <<"experiments", "registeredmodels">>
    /\ StoredRules[1] = Rule(<<"mlflow.kubeflow.org">>, args.resources, args.verbs)

\* the request asks for create on a kind that declares sub-resources and
\* supplies no subresources argument
AutoDetects ==
    /\ "create" \in Range(args.verbs)
    /\ \E k \in DOMAIN args.resources :
          get_k8s_sub_resources(args.resources[k]) # <<>>
    /\ ~args.subresources.given

\* C20: when the verbs include create, a requested kind declares
\* sub-resources and subresources is not supplied, create_role emits one
\* sub-resource rule with verbs exactly {create} over the union of the
\* declared sub-resources of the requested kinds.
C20_SubResourceAutoDetection ==
    (RoleStored /\ AutoDetects) =>
        LET sub == {k \in DOMAIN StoredRules : IsSubRule(StoredRules[k])}
        IN  /\ Cardinality(sub) = 1
            /\ \A k \in sub :
                  /\ StoredRules[k].verbs = <<"create">>
                  /\ Range(StoredRules[k].resources) =
                        UNION {Range(get_k8s_sub_resources(args.resources[j])) :
                                  j \in DOMAIN args.resources}

C20_Witness ==
    /\ RoleStored
    /\ AutoDetects
    /\ g.pc = "binding"
    /\ args.verbs = <<"get", "create">>
    /\ args.resources = <<"gatewaysecrets", "gatewayendpoints">>
    /\ StoredRules[2].resources = <<"gatewaysecrets/use", "gatewayendpoints/use">>

\* the request asks for create on a kind that declares sub-resources and
\* passes an explicit empty subresources list
ExplicitEmpty ==
    /\ "create" \in Range(args.verbs)
    /\ \E k \in DOMAIN args.resources :
          get_k8s_sub_resources(args.resources[k]) # <<>>
    /\ args.subresources = Given(<<>>)

\* the sub-resource rules of the stored role
StoredSubRules == {k \in DOMAIN StoredRules : IsSubRule(StoredRules[k])}

C22_NoCreateNoSubRule ==
    (/\ RoleStored
     /\ "create" \notin Range(args.verbs)
     /\ SubOrEmpty(args.subresources) = <<>>) =>
        /\ StoredSubRules = {}
        /\ \A k \in DOMAIN StoredRules :
              \A j \in DOMAIN StoredRules[k].resources :
                 StoredRules[k].resources[j] \notin Range(get_all_sub_resources)

C22_Witness ==
    /\ RoleStored
    /\ g.pc = "binding"
    /\ args.verbs = <<"get", "delete">>
    /\ args.resources = <<"gatewaysecrets", "gatewayendpoints">>
    /\ ~args.subresources.given
    /\ Len(StoredRules) = 3

\* the two rules appended after the capability's own rules
BootstrapRules(rules) == SubSeq(rules, Len(rules) - 1, Len(rules))

\* C23 as stated: the two bootstrap rules of every stored role are the same
\* whatever was requested: those of a request for read access.
C23_Original ==
    RoleStored =>
        BootstrapRules(StoredRules) =
            BootstrapRules(PolicyRules(<<"get">>, <<"experiments">>, NoList))

\* C23, amended: the bootstrap rules' api groups and resources, and the
\* verbs of the RBAC self-inspection rule, are the same for every request;
\* the verbs of the core rule are get and list, with create added exactly
\* when the requested verbs include create.
C23_BootstrapRules ==
    RoleStored =>
        LET core == BootstrapRules(StoredRules)[1]
            rbac == BootstrapRules(StoredRules)[2]
        IN  /\ Len(StoredRules) >= 2
            /\ core.api_groups = <<"">>
            /\ core.resources = <<"namespaces", "serviceaccounts", "secrets">>
            /\ core.verbs = IF "create" \in Range(args.verbs)
                            THEN <<"get", "list", "create">>
                            ELSE <<"get", "list">>
            /\ rbac = Rule(<<"rbac.authorization.k8s.io">>,
                           <<"roles", "rolebindings">>, <<"get", "list">>)

C23_Witness ==
    /\ RoleStored
    /\ g.pc = "binding"
    /\ args.verbs = <<"create", "delete">>
    /\ args.resources = <<>>
    /\ Len(StoredRules) = 2
    /\ StoredRules[1].verbs = <<"get", "list", "create">>

\* the backend accepted the role request of the current call
RoleAccepted ==
    /\ g.reqs # <<>>
    /\ g.reqs[1][1] = "role"
    /\ g.reqs[1][2] \in {"ok", "409"}

\* C30: with a non-empty explicit subresources list and a backend that
\* accepts the role, create_role stores one sub-resource rule with exactly
\* those names and verbs {create}, returns without raising, and the binding
\* creation and the verification of K8UserManager.create_role follow.
C30_ExplicitSubResourcesGrant ==
    (SubOrEmpty(args.subresources) # <<>> /\ RoleAccepted) =>
        /\ g.raisedBy # "create_role"
        /\ g.pc \in {"binding", "verify", "done", "raised"}
        /\ RoleStored =>
              /\ Cardinality(StoredSubRules) = 1
              /\ \A k \in StoredSubRules :
                    /\ StoredRules[k].resources = args.subresources.list
                    /\ StoredRules[k].verbs = <<"create">>
        /\ (g.pc = "done" /\ args.resources # <<>>) =>
              /\ RequestsOf("binding") = 1
              /\ g.sars > 0

----------------------------------------------------------------------------
(* Properties of the error classifier (tests/shared/error_models.py) *)

\* C24: every message gets exactly one kind of ErrorCode, repeated calls on
\* the same message give the same kind, and a message containing both
\* "permission" and "denied" is classified PERMISSION_DENIED whatever other
\* table substrings it contains.
C24_ClassifyTotalDeterministic ==
    /\ \A k \in DOMAIN cl.calls : cl.calls[k] \in ErrorCode
    /\ \A j, k \in DOMAIN cl.calls : cl.calls[j] = cl.calls[k]
    /\ {"permission", "denied"} \subseteq cl.msg =>
          \A k \in DOMAIN cl.calls : cl.calls[k] = "PERMISSION_DENIED"

C24_Witness ==
    /\ cl.msg = {"permission", "denied", "not found"}
    /\ cl.calls = <<"PERMISSION_DENIED", "PERMISSION_DENIED">>

\* the message matches a pattern of the permission and authentication rows
MatchesAuth(P) ==
    \/ "permission" \in P /\ "denied" \in P
    \/ "unauthenticated" \in P
    \/ "forbidden" \in P
    \/ "authentication" \in P /\ "failed" \in P

\* the message matches the workspace row
MatchesWorkspace(P) == "workspace" \in P /\ ("access" \in P \/ "denied" \in P)

\* the message matches a "not found" or "already exists" row
MatchesResource(P) ==
    \/ "not found" \in P \/ "does not exist" \in P
    \/ "already exists" \in P \/ "duplicate" \in P

\* the message matches an "invalid" or "quota" row
MatchesGeneric(P) ==
    \/ "quota" \in P \/ "limit" \in P
    \/ "invalid" \in P \/ "bad request" \in P

AuthKinds ==
    {"PERMISSION_DENIED", "UNAUTHENTICATED", "FORBIDDEN", "AUTHENTICATION_FAILED"}

PermissionKinds == AuthKinds \cup {"WORKSPACE_ACCESS_DENIED"}

ResourceKinds == {"RESOURCE_NOT_FOUND", "RESOURCE_ALREADY_EXISTS"}

GenericKinds == {"QUOTA_EXCEEDED", "INVALID_REQUEST"}

\* C25 as stated: a message matching a pattern of a permission-related kind
\* (workspace-access-denied included) gets a permission-related kind even
\* when it also matches a "not found"/"already exists" or an
\* "invalid"/"quota" pattern, and a message matching a "not found"/"already
\* exists" pattern and no permission-related one gets that kind even when
\* it also matches an "invalid"/"quota" pattern.
C25_Original ==
    \A k \in DOMAIN cl.calls :
        /\ (MatchesAuth(cl.msg) \/ MatchesWorkspace(cl.msg)) =>
              cl.calls[k] \in PermissionKinds
        /\ (/\ ~(MatchesAuth(cl.msg) \/ MatchesWorkspace(cl.msg))
            /\ MatchesResource(cl.msg)) => cl.calls[k] \in ResourceKinds

\* C25, amended: the patterns of permission-denied, unauthenticated,
\* forbidden and authentication-failed win over the "not found"/"already
\* exists" patterns, which win over the workspace-access-denied pattern,
\* which wins over the "invalid"/"quota" patterns.
C25_PriorityClasses ==
    \A k \in DOMAIN cl.calls :
        /\ MatchesAuth(cl.msg) => cl.calls[k] \in AuthKinds
        /\ (~MatchesAuth(cl.msg) /\ MatchesResource(cl.msg)) =>
              cl.calls[k] \in ResourceKinds
        /\ (/\ ~MatchesAuth(cl.msg)
            /\ ~MatchesResource(cl.msg)
            /\ MatchesWorkspace(cl.msg)) =>
              cl.calls[k] = "WORKSPACE_ACCESS_DENIED"
        /\ (/\ ~MatchesAuth(cl.msg)
            /\ ~MatchesResource(cl.msg)
            /\ ~MatchesWorkspace(cl.msg)
            /\ MatchesGeneric(cl.msg)) => cl.calls[k] \in GenericKinds

C25_Witness ==
    /\ cl.msg = {"workspace", "access", "not found"}
    /\ cl.calls = <<"RESOURCE_NOT_FOUND">>

\* C26: is_permission_error is true exactly for the kinds permission-denied,
\* unauthenticated, forbidden, authentication-failed and
\* workspace-access-denied, is_authentication_error exactly for
\* unauthenticated, authentication-failed and forbidden; so
\* is_authentication_error implies is_permission_error.
C26_CategoryPredicates ==
    /\ "permission" \in cl.asked =>
          (cl.perm <=> cl.calls[1] \in
              {"PERMISSION_DENIED", "UNAUTHENTICATED", "FORBIDDEN",
               "AUTHENTICATION_FAILED", "WORKSPACE_ACCESS_DENIED"})
    /\ "authentication" \in cl.asked =>
          (cl.auth <=> cl.calls[1] \in
              {"UNAUTHENTICATED", "AUTHENTICATION_FAILED", "FORBIDDEN"})
    /\ cl.asked = {"permission", "authentication"} => (cl.auth => cl.perm)

C26_Witness ==
    /\ cl.asked = {"permission", "authentication"}
    /\ cl.calls[1] = "WORKSPACE_ACCESS_DENIED"
    /\ cl.perm
    /\ ~cl.auth

----------------------------------------------------------------------------
(* Teardown of identities and the credential it runs under                 *)

\* the deletions of one kind that the teardown has requested so far
DeletionsOf(kind) == SelectSeq(p.deleted, LAMBDA e : e[2] = kind)

\* C32: delete_user with a namespace attempts the deletion of the service
\* account, of the role and of the role binding, each of them whatever the
\* outcome of the others: after the teardown has processed k registered
\* users, k deletions of each kind have been requested.
C32_EveryObjectDeletionAttempted ==
    \A kind \in {"serviceaccount", "role", "binding"} :
        Len(DeletionsOf(kind)) = p.di

\* C33: when the teardown deletes resources, the ambient credential is the
\* admin credential that admin_user_context set, also after steps that
\* provisioned users.
C33_TeardownUnderAdmin ==
    p.pc = "teardown" =>
        /\ cm.env.token = AdminToken
        /\ cm.env.username = None
        /\ cm.env.password = None

----------------------------------------------------------------------------
(* Properties of the ambient credentials (utils/client.py)                 *)

\* bool(x) of an optional string
Truthy(x) == x # None /\ x # ""

\* a username without a password, or a password without a username
PartialCreds(c) == Truthy(c.username) # Truthy(c.password)

\* what a call with these arguments leaves in the environment: the basic
\* credentials when both are given, else the token when given, else nothing
Effective(c) ==
    IF Truthy(c.username) /\ Truthy(c.password)
    THEN [username |-> c.username, password |-> c.password, token |-> None]
    ELSE [username |-> None, password |-> None,
          token |-> IF Truthy(c.token) THEN c.token ELSE None]

\* C36: whatever the interleaving of create_mlflow_client calls, the
\* environment never holds a basic-auth credential and a bearer token at the
\* same time, and whenever no call is inside the lock it holds exactly the
\* credentials of the call that most recently held the lock.
C36_AmbientExclusive ==
    /\ ~(/\ cm.env.token # None
         /\ (cm.env.username # None \/ cm.env.password # None))
    /\ (cm.lock = 0 /\ cm.last # 0) =>
          AuthOf(cm.env) = Effective(cm.calls[cm.last].creds)

C36_Witness ==
    /\ Len(cm.calls) = 2
    /\ cm.lock = 0
    /\ cm.last = 2
    /\ cm.calls[1].pc = "returned"
    /\ cm.calls[1].seen.username = "alice"
    /\ cm.calls[2].pc = "returned"
    /\ cm.calls[2].creds.username = None
    /\ cm.env.token = "token-b"

\* C39: a create_mlflow_client call with a username and no password, or a
\* password and no username, never takes the lock, and the statement that
\* rejects it raises and leaves the environment (credentials and tracking
\* URI) and the lock as they were.
C39_RejectedCallHasNoEffect ==
    /\ [](\A t \in DOMAIN cm.calls :
             PartialCreds(cm.calls[t].creds) =>
                 /\ cm.calls[t].pc \in {"start", "raised"}
                 /\ ~cm.calls[t].entered
                 /\ cm.lock # t
                 /\ cm.last # t)
    /\ [][\A t \in DOMAIN cm.calls :
             (PartialCreds(cm.calls[t].creds) /\ cm.calls[t]' # cm.calls[t]) =>
                 /\ cm.calls[t]'.pc = "raised"
                 /\ cm.env' = cm.env
                 /\ cm.lock' = cm.lock]_vars

C39_Witness ==
    /\ Len(cm.calls) = 2
    /\ cm.calls[1].pc = "raised"
    /\ cm.calls[1].creds.username = ""
    /\ cm.calls[1].creds.password = "pw-bob"
    /\ cm.calls[2].pc = "returned"
    /\ cm.env.token = "token-a"
    /\ cm.env.uri = TrackingUri

----------------------------------------------------------------------------
(* Properties of the number of requests and of action calls                *)

\* the creation requests of one kind that the current grant has issued
RequestsTo(kind) == SelectSeq(g.reqs, LAMBDA r : r[1] = kind)

\* the calls of the action function that step i has made
ActionCalls(i) == SelectSeq(ex.trace, LAMBDA e : e = <<i, "action">>)

\* C37: a grant issues the role-creation request once and, when create_role
\* returned, the binding-creation request once, never a second time (also
\* after a 409); a step with an action function calls it once, whether it
\* returns or raises, and never a second time.
C37_NoHiddenRetries ==
    /\ Len(RequestsTo("role")) <= 1
    /\ Len(RequestsTo("binding")) <= 1
    /\ g.pc \in {"binding", "verify", "done", "raised"} =>
          Len(RequestsTo("role")) = 1
    /\ (\/ g.pc \in {"verify", "done"}
        \/ g.pc = "raised" /\ g.raisedBy # "create_role") =>
          Len(RequestsTo("binding")) = 1
    /\ \A i \in 1..ex.i : Len(ActionCalls(i)) <= 1
    /\ (/\ ex.i >= 1
        /\ ex.step.action_func # None
        /\ ex.pc \in {"validate", "loop", "done", "raised"}
        /\ ex.exc.type # "ProvisioningError") =>
          Len(ActionCalls(ex.i)) = 1
    /\ (ex.i >= 1 /\ ex.step.action_func = None) =>
          Len(ActionCalls(ex.i)) = 0

\* a second grant met 409 on the role and on the binding and completed
C37_Witness ==
    /\ g.pc = "done"
    /\ g.call = 2
    /\ g.reqs = <<<<"role", "409">>, <<"binding", "409">>>>

\* a step's action raised once and the next step's action returned once
C37_WitnessExec ==
    /\ ex.pc = "done"
    /\ ex.i = 2
    /\ \E j \in DOMAIN ex.trace : ex.trace[j] = <<1, "raised">>
    /\ Len(ActionCalls(1)) = 1
    /\ Len(ActionCalls(2)) = 1

----------------------------------------------------------------------------
(* Properties of the token-request loop (managers/k8s/service_account.py)  *)

\* C38: for every max_retries >= 1 and every sequence of answers of the
\* identity backend, _get_token_via_token_request issues at most max_retries
\* requests (one per answer) and sleeps at most max_retries - 1 times; while
\* it has not ended it has issued fewer than max_retries requests; it ends
\* by returning a token of length 10 or more or by raising the ApiException
\* or the ValueError of the last iteration, never the RuntimeError that
\* follows the loop.
C38_TokenRetryTerminates ==
    max_retries >= 1 =>
        /\ p.tok.requests = Len(answers)
        /\ p.tok.requests <= max_retries
        /\ p.tok.sleeps <= max_retries - 1
        /\ p.tok.sleeps <= p.tok.requests
        /\ p.tok.pc \in {"request", "returned", "raised"}
        /\ p.tok.pc = "request" => p.tok.requests < max_retries
        /\ p.tok.pc = "returned" => p.tok.token.len >= 10
        /\ p.tok.pc = "raised" =>
              /\ p.tok.exc \in {"ApiException", "ValueError"}
              /\ p.tok.requests = max_retries

\* three requests: a failure, an empty token, then a token that is not in
\* three-part form, returned on the last attempt
C38_Witness ==
    /\ max_retries = 3
    /\ Len(answers) = 3
    /\ answers[1].error
    /\ ~answers[2].error /\ answers[2].token.len = 0
    /\ answers[3].token.parts = 2
    /\ p.tok.pc = "returned"
    /\ p.tok.sleeps = 2

----------------------------------------------------------------------------
(* Properties of the verifications of a grant (manager/user.py)            *)

\* delete > create > update > get > list
VerbPriority == <<"delete", "create", "update", "get", "list">>

\* the requested verb that comes first in the priority order
PriorityVerb(verbs) ==
    VerbPriority[CHOOSE i \in DOMAIN VerbPriority :
                     /\ VerbPriority[i] \in Range(verbs)
                     /\ \A j \in 1..(i - 1) : VerbPriority[j] \notin Range(verbs)]

\* C35: for a non-empty requested verb list, the k-th verification of a
\* grant is of the k-th requested resource, with the requested verb that
\* comes first in delete > create > update > get > list; verifications start
\* only after the role and the binding, a completed grant has made one per
\* requested resource, and a grant whose verification raised has made none
\* beyond the one that failed.
C35_VerificationVerbChoice ==
    args.verbs # <<>> =>
        /\ \A k \in DOMAIN g.checks :
              /\ k <= Len(args.resources)
              /\ g.checks[k][1] = args.resources[k]
              /\ g.checks[k][2] = PriorityVerb(args.verbs)
              /\ g.checks[k][2] \in Range(args.verbs)
        /\ g.pc \in {"role", "binding"} => g.checks = <<>>
        /\ g.pc = "verify" => Len(g.checks) = g.ri
        /\ g.pc = "done" => Len(g.checks) = Len(args.resources)
        /\ g.pc = "raised" =>
              IF g.raisedBy = "verify_rbac_permissions"
              THEN Len(g.checks) = g.ri
              ELSE g.checks = <<>>

\* the second of two verifications failed, with delete chosen over create
C35_Witness ==
    /\ args.verbs = <<"create", "delete">>
    /\ args.resources = <<"experiments", "registeredmodels">>
    /\ g.pc = "raised"
    /\ g.raisedBy = "verify_rbac_permissions"
    /\ g.checks = <<<<"experiments", "delete">>, <<"registeredmodels", "delete">>>>

----------------------------------------------------------------------------
(* Properties of the cleanup registry (tests/shared/test_context.py)       *)

\* C34: every experiment in the cleanup registry is recorded with the
\* workspace that was set on the tracking client (by the last
\* mlflow.set_workspace) when the experiment was created, also when the
\* creating step or an earlier step carries its own workspace_to_use.
C34_RegistryScopeConsistent ==
    \A k \in DOMAIN ctx.experiments_to_delete :
        \A j \in DOMAIN ex.created :
            ex.created[j].id = ctx.experiments_to_delete[k].id =>
                ctx.experiments_to_delete[k].workspace = ex.created[j].workspace

----------------------------------------------------------------------------
(* Properties of the teardown loops (tests/base.py)                        *)

\* C31: the teardown never raises; it visits every registered experiment,
\* run, model and user in turn, whatever the earlier iterations met; for a
\* user it calls delete_user; for another resource it leaves out the lookup
\* exactly when the recorded workspace is not a known one or the switch to it
\* failed, and it requests the deletion of every resource the lookup found
\* alive; when it ends, every entry has been visited.
C31_BestEffortTeardown ==
    /\ td.pc \in {"idle", "loop", "finished"}
    /\ Len(td.log) = td.k
    /\ td.k <= Len(td.todo)
    /\ td.pc = "finished" => td.k = Len(td.todo)
    /\ \A j \in 1..td.k :
          LET item == td.todo[j]
              e == td.log[j]
          IN  /\ e.id = j
              /\ item.kind = "user" => e.del \in {"ok", "error"}
              /\ item.kind # "user" =>
                    /\ e.get = "not_called" <=>
                          (\/ item.workspace \notin {"workspace1", "workspace2"}
                           \/ e.sw = "error")
                    /\ e.get = "live" => e.del \in {"ok", "error"}

\* an experiment of an unknown workspace was skipped, the deletion of a run
\* failed, and the user's deletion was still requested
C31_Witness ==
    /\ td.pc = "finished"
    /\ Len(td.todo) = 3
    /\ td.todo[1].kind = "experiment" /\ td.todo[1].workspace = "workspace3"
    /\ td.log[1].get = "not_called"
    /\ td.todo[2].kind = "run" /\ td.log[2].del = "error"
    /\ td.todo[3].kind = "user" /\ td.log[3].del = "ok"
    /\ td.cleanup_errors = 2

====
